---------------------------- MODULE Spec2Model ----------------------------
(***************************************************************************)
(* A model of pydantic-identity: the canonicalize / serialize / hash       *)
(* pipeline of BaseIdentityModel and its two class-keyed cache registries. *)
(*                                                                         *)
(* Representation of Python values.                                        *)
(*   - A Python str is a sequence of one-character strings, so that the    *)
(*     code-point order used by sorted() and by orjson's OPT_SORT_KEYS can *)
(*     be computed.  The characters are printable ASCII.                   *)
(*   - A JSON-like value is a record [k |-> kind, v |-> payload]:          *)
(*       "null" (v = 0), "bool" (v a BOOLEAN), "int" (v an integer),       *)
(*       "str" (v a str), "list" (v a sequence of values),                 *)
(*       "map" (v a sequence of <<key, value>> pairs with distinct keys,   *)
(*       in the dict's insertion order), and "obj" (an object() the JSON   *)
(*       encoder does not know, v = the hex digits of its address).        *)
(***************************************************************************)
EXTENDS Integers, Sequences, FiniteSets, TLC

----------------------------------------------------------------------------
(* Characters and strings *)

\* Printable ASCII, code points 32..126, in code-point order.  The double
\* quote, the backslash and the backtick are written as names.
Ascii ==
  << " ", "!", "DQUOTE", "#", "$", "%", "&", "'", "(", ")", "*", "+", ",", "-",
     ".", "/", "0", "1", "2", "3", "4", "5", "6", "7", "8", "9", ":", ";",
     "<", "=", ">", "?", "@", "A", "B", "C", "D", "E", "F", "G", "H", "I",
     "J", "K", "L", "M", "N", "O", "P", "Q", "R", "S", "T", "U", "V", "W",
     "X", "Y", "Z", "[", "BACKSLASH", "]", "^", "_", "BACKTICK", "a", "b", "c", "d", "e",
     "f", "g", "h", "i", "j", "k", "l", "m", "n", "o", "p", "q", "r", "s",
     "t", "u", "v", "w", "x", "y", "z", "{", "|", "}", "~" >>

\* ord(c)
CodeOf ==
  [c \in {Ascii[i] : i \in 1..Len(Ascii)} |->
      (CHOOSE i \in 1..Len(Ascii) : Ascii[i] = c) + 31]

\* The double quote, the single quote and the backslash.
DQ == "DQUOTE"
SQ == "'"
BS == "BACKSLASH"

\* c in s
Contains(s, c) == \E i \in 1..Len(s) : s[i] = c

\* Python's str.__lt__: lexicographic by code point, a proper prefix first.
StrLess(s, t) ==
  LET n == IF Len(s) < Len(t) THEN Len(s) ELSE Len(t)
      diff == {i \in 1..n : s[i] # t[i]}
  IN  IF diff = {} THEN Len(s) < Len(t)
      ELSE LET i == CHOOSE j \in diff : \A m \in diff : j <= m
           IN  CodeOf[s[i]] < CodeOf[t[i]]

\* Insertion of x into an already sorted sequence, after its equals (stable).
RECURSIVE InsertSorted(_, _)
InsertSorted(x, sorted) ==
  IF sorted = <<>> THEN <<x>>
  ELSE IF StrLess(x, sorted[1]) THEN <<x>> \o sorted
  ELSE <<sorted[1]>> \o InsertSorted(x, Tail(sorted))

\* sorted(v) for a list of str: ascending, stable.
RECURSIVE SortedStrs(_)
SortedStrs(strs) ==
  IF strs = <<>> THEN <<>>
  ELSE InsertSorted(strs[Len(strs)], SortedStrs(SubSeq(strs, 1, Len(strs) - 1)))

DecimalDigits == <<"0", "1", "2", "3", "4", "5", "6", "7", "8", "9">>

\* str(n) of a non-negative int
RECURSIVE NatToStr(_)
NatToStr(n) ==
  IF n < 10 THEN <<DecimalDigits[n + 1]>>
  ELSE NatToStr(n \div 10) \o <<DecimalDigits[(n % 10) + 1]>>

\* str(n) of an int
IntToStr(n) == IF n < 0 THEN <<"-">> \o NatToStr(-n) ELSE NatToStr(n)

----------------------------------------------------------------------------
(* JSON-like values *)

NullV == [k |-> "null", v |-> 0]
BoolV(b) == [k |-> "bool", v |-> b]
IntV(n) == [k |-> "int", v |-> n]
StrV(s) == [k |-> "str", v |-> s]
ListV(elems) == [k |-> "list", v |-> elems]
MapV(items) == [k |-> "map", v |-> items]
\* An object() that lives at the address with the given hex digits; the
\* address of an object differs from object to object and from run to run.
ObjAt(address) == [k |-> "obj", v |-> address]
ObjV == ObjAt(<<"7", "f", "3", "a", "5", "c", "1", "e", "2", "b", "d", "0">>)

\* The keys the canonicalizer inspects.
KeyDescription == <<"d", "e", "s", "c", "r", "i", "p", "t", "i", "o", "n">>
KeyRequired == <<"r", "e", "q", "u", "i", "r", "e", "d">>
KeyDefault == <<"d", "e", "f", "a", "u", "l", "t">>

\* sep.join(strs) for a sequence of str (computed by halves)
RECURSIVE JoinStrs(_, _)
JoinStrs(strs, sep) ==
  IF strs = <<>> THEN <<>>
  ELSE IF Len(strs) = 1 THEN strs[1]
  ELSE LET h == Len(strs) \div 2
       IN  JoinStrs(SubSeq(strs, 1, h), sep) \o sep
             \o JoinStrs(SubSeq(strs, h + 1, Len(strs)), sep)

\* s with a backslash put before every backslash and every `quote`
\* (computed by halves)
RECURSIVE Escaped(_, _)
Escaped(s, quote) ==
  IF ~Contains(s, BS) /\ ~Contains(s, quote) THEN s
  ELSE IF Len(s) = 1
    THEN IF s[1] = BS \/ s[1] = quote THEN <<BS, s[1]>> ELSE s
  ELSE LET h == Len(s) \div 2
       IN  Escaped(SubSeq(s, 1, h), quote) \o Escaped(SubSeq(s, h + 1, Len(s)), quote)

\* repr(s) of a str: in single quotes, unless s holds a single quote and no
\* double quote; backslashes and the chosen quote are escaped.
StrRepr(s) ==
  LET quote == IF Contains(s, SQ) /\ ~Contains(s, DQ) THEN DQ ELSE SQ
  IN  <<quote>> \o Escaped(s, quote) \o <<quote>>

\* repr(x): what str() of a container shows for a member.
RECURSIVE PyRepr(_)
PyRepr(x) ==
  CASE x.k = "null" -> <<"N", "o", "n", "e">>
    [] x.k = "bool" -> IF x.v THEN <<"T", "r", "u", "e">>
                       ELSE <<"F", "a", "l", "s", "e">>
    [] x.k = "int" -> IntToStr(x.v)
    [] x.k = "str" -> StrRepr(x.v)
    [] x.k = "list" ->
         <<"[">> \o JoinStrs([i \in 1..Len(x.v) |-> PyRepr(x.v[i])], <<",", " ">>)
                 \o <<"]">>
    [] x.k = "map" ->
         <<"{">> \o JoinStrs([i \in 1..Len(x.v) |->
                                 StrRepr(x.v[i][1]) \o <<":", " ">>
                                         \o PyRepr(x.v[i][2])],
                              <<",", " ">>)
                 \o <<"}">>
    [] OTHER -> <<"<", "o", "b", "j", "e", "c", "t", " ", "o", "b", "j", "e", "c", "t",
                  " ", "a", "t", " ", "0", "x">> \o x.v \o <<">">>

\* str(x): a str is itself, anything else its repr.
PyStr(x) == IF x.k = "str" THEN x.v ELSE PyRepr(x)

\* bool(x) for the values a configuration attribute can hold.
Truthy(x) ==
  CASE x.k = "null" -> FALSE
    [] x.k = "bool" -> x.v
    [] x.k = "int" -> x.v # 0
    [] x.k \in {"str", "list", "map"} -> Len(x.v) > 0
    [] OTHER -> TRUE

----------------------------------------------------------------------------
(* utils.json_dumps: orjson.dumps(obj, option = OPT_SORT_KEYS or 0) *)

\* orjson encodes None, bool, int, str, list and dict (with str keys); any
\* other object makes it raise.
RECURSIVE Serializable(_)
Serializable(x) ==
  CASE x.k \in {"null", "bool", "int", "str"} -> TRUE
    [] x.k = "list" -> \A i \in 1..Len(x.v) : Serializable(x.v[i])
    [] x.k = "map" -> \A i \in 1..Len(x.v) : Serializable(x.v[i][2])
    [] OTHER -> FALSE

\* Insertion of a <<key, value>> pair into pairs sorted by key.
RECURSIVE InsertByKey(_, _)
InsertByKey(item, sorted) ==
  IF sorted = <<>> THEN <<item>>
  ELSE IF StrLess(item[1], sorted[1][1]) THEN <<item>> \o sorted
  ELSE <<sorted[1]>> \o InsertByKey(item, Tail(sorted))

\* OPT_SORT_KEYS: the pairs of a dict in ascending key order.
RECURSIVE SortByKey(_)
SortByKey(items) ==
  IF items = <<>> THEN <<>>
  ELSE InsertByKey(items[Len(items)], SortByKey(SubSeq(items, 1, Len(items) - 1)))

\* A str as a JSON string: the double quote and the backslash are escaped.
JsonStr(s) == <<DQ>> \o Escaped(s, DQ) \o <<DQ>>

\* The compact JSON text of a serializable value; JsonMembers is the text of
\* the members of a list and JsonPairs that of the pairs of a dict, separated
\* by commas.
RECURSIVE JsonText(_, _), JsonMembers(_, _), JsonPairs(_, _)
JsonText(x, sort_keys) ==
  CASE x.k = "null" -> <<"n", "u", "l", "l">>
    [] x.k = "bool" -> IF x.v THEN <<"t", "r", "u", "e">>
                       ELSE <<"f", "a", "l", "s", "e">>
    [] x.k = "int" -> IntToStr(x.v)
    [] x.k = "str" -> JsonStr(x.v)
    [] x.k = "list" -> <<"[">> \o JsonMembers(x.v, sort_keys) \o <<"]">>
    [] x.k = "map" ->
         <<"{">> \o JsonPairs(IF sort_keys THEN SortByKey(x.v) ELSE x.v, sort_keys)
                 \o <<"}">>

JsonMembers(elems, sort_keys) ==
  IF elems = <<>> THEN <<>>
  ELSE JsonText(elems[1], sort_keys)
         \o (IF Len(elems) = 1 THEN <<>>
             ELSE <<",">> \o JsonMembers(Tail(elems), sort_keys))

JsonPairs(items, sort_keys) ==
  IF items = <<>> THEN <<>>
  ELSE JsonStr(items[1][1]) \o <<":">> \o JsonText(items[1][2], sort_keys)
         \o (IF Len(items) = 1 THEN <<>>
             ELSE <<",">> \o JsonPairs(Tail(items), sort_keys))

\* utils.json_dumps: the bytes, or an exception.
json_dumps(obj, sort_keys) ==
  IF Serializable(obj)
    THEN [raised |-> FALSE, bytes |-> JsonText(obj, sort_keys)]
    ELSE [raised |-> TRUE, bytes |-> <<>>]

----------------------------------------------------------------------------
(* BaseIdentityModel._preprocess_schemas *)

\* sorted(v) for a list whose members are all str.
SortedStrValues(elems) ==
  LET strs == SortedStrs([i \in 1..Len(elems) |-> elems[i].v])
  IN  [i \in 1..Len(strs) |-> StrV(strs[i])]

\* The value of `data` after _preprocess_schemas(data, ...) has mutated it in
\* place.  PreprocessItems walks the snapshot list(data.items()) of a dict.
\* A `required` list that starts with a str is taken to hold only str, as the
\* Schema Provider writes it (sorted() raises on a mixed list).
RECURSIVE _preprocess_schemas(_, _, _, _)
RECURSIVE PreprocessItems(_, _, _, _)
_preprocess_schemas(data, sort_required, del_descriptions, sort_lists) ==
  IF data.k = "map"
    THEN MapV(PreprocessItems(data.v, sort_required, del_descriptions, sort_lists))
    ELSE data

PreprocessItems(items, sort_required, del_descriptions, sort_lists) ==
  IF items = <<>> THEN <<>>
  ELSE
    LET key == items[1][1]
        val == items[1][2]
        rest == PreprocessItems(Tail(items), sort_required, del_descriptions,
                                sort_lists)
    IN  IF del_descriptions /\ key = KeyDescription /\ val.k = "str"
          THEN rest
        ELSE IF val.k = "list" /\ Len(val.v) > 0
          THEN IF sort_required /\ key = KeyRequired /\ val.v[1].k = "str"
                 THEN << <<key, ListV(SortedStrValues(val.v))>> >> \o rest
               ELSE IF sort_lists /\ key # KeyDefault
                 THEN LET strs ==
                            [i \in 1..Len(val.v) |->
                               PyStr(_preprocess_schemas(val.v[i], sort_required,
                                                         FALSE, sort_lists))]
                          sorted == SortedStrs(strs)
                      IN  << <<key, ListV([i \in 1..Len(sorted) |->
                                             StrV(sorted[i])])>> >> \o rest
               ELSE << <<key, val>> >> \o rest
        ELSE << <<key, _preprocess_schemas(val, sort_required, del_descriptions,
                                            sort_lists)>> >> \o rest

----------------------------------------------------------------------------
(* utils.get_class_fullname *)

\* seq[start:] for a Python slice start
PySliceFrom(seq, start) ==
  LET n == Len(seq)
      from == IF start < 0 THEN (IF n + start < 0 THEN 0 ELSE n + start)
              ELSE (IF start > n THEN n ELSE start)
  IN  SubSeq(seq, from + 1, n)

\* Length of s[:stop] for a str of length n and a Python slice stop
PySliceLen(n, stop) ==
  IF stop < 0 THEN (IF n + stop < 0 THEN 0 ELSE n + stop)
  ELSE (IF stop > n THEN n ELSE stop)

\* s.removesuffix(suffix)
RemoveSuffix(s, suffix) ==
  IF Len(s) >= Len(suffix) /\ SubSeq(s, Len(s) - Len(suffix) + 1, Len(s)) = suffix
    THEN SubSeq(s, 1, Len(s) - Len(suffix))
    ELSE s

\* utils.truncate_path, on the parts of the path: the last parts_to_keep parts.
truncate_path(parts, parts_to_keep) ==
  IF parts_to_keep = 0 THEN <<>> ELSE PySliceFrom(parts, -parts_to_keep)

\* utils.get_class_fullname.  `file_parts` is Path(file).parts of the module
\* file the class was defined in, <<>> when the file is unknown.  The kept
\* parts are joined, ".py" is removed from the end of the joined path, and
\* Path(...).parts of what is left (a last part that has become empty or "."
\* is no part) are joined with the class name by dots.
get_class_fullname(file_parts, cls_name, path_parts) ==
  LET kept == truncate_path(file_parts, path_parts)
      stem == IF kept = <<>> THEN <<>>
              ELSE LET last == RemoveSuffix(kept[Len(kept)], <<".", "p", "y">>)
                   IN  IF last = <<>> \/ last = <<".">>
                         THEN SubSeq(kept, 1, Len(kept) - 1)
                       ELSE [kept EXCEPT ![Len(kept)] = last]
  IN  JoinStrs(stem \o <<cls_name>>, <<".">>)

----------------------------------------------------------------------------
(* hashlib.md5 (RFC 1321) *)

\* A 32-bit word is the pair <<high, low>> of its 16-bit halves.
RECURSIVE BitAnd(_, _)
BitAnd(x, y) ==
  IF x = 0 \/ y = 0 THEN 0
  ELSE ((x % 2) * (y % 2)) + (2 * BitAnd(x \div 2, y \div 2))

BitOr(x, y) == (x + y) - BitAnd(x, y)
BitXor(x, y) == (x + y) - (2 * BitAnd(x, y))

WordAnd(a, b) == <<BitAnd(a[1], b[1]), BitAnd(a[2], b[2])>>
WordOr(a, b) == <<BitOr(a[1], b[1]), BitOr(a[2], b[2])>>
WordXor(a, b) == <<BitXor(a[1], b[1]), BitXor(a[2], b[2])>>
WordNot(a) == <<65535 - a[1], 65535 - a[2]>>

\* (a + b) mod 2^32
WordAdd(a, b) ==
  LET low == a[2] + b[2]
  IN  <<(a[1] + b[1] + (low \div 65536)) % 65536, low % 65536>>

PowersOfTwo ==
  <<1, 2, 4, 8, 16, 32, 64, 128, 256, 512, 1024, 2048, 4096, 8192, 16384,
    32768, 65536>>

\* w rotated left by s bits, 0 < s < 32
RotateLeft(w, s) ==
  LET x == IF s >= 16 THEN <<w[2], w[1]>> ELSE w
      r == s % 16
      p == PowersOfTwo[r + 1]
      q == PowersOfTwo[17 - r]
  IN  IF r = 0 THEN x
      ELSE <<((x[1] * p) % 65536) + (x[2] \div q),
             ((x[2] * p) % 65536) + (x[1] \div q)>>

\* floor(2^32 * abs(sin(i + 1))) for i = 0..63
Md5Sines ==
  <<
     <<55146, 42104>>, <<59591, 46934>>, <<9248, 28891>>, <<49597, 52974>>,
     <<62844, 4015>>, <<18311, 50730>>, <<43056, 17939>>, <<64838, 38145>>,
     <<27008, 39128>>, <<35652, 63407>>, <<65535, 23473>>, <<35164, 55230>>,
     <<27536, 4386>>, <<64920, 29075>>, <<42617, 17294>>, <<18868, 2081>>,
     <<63006, 9570>>, <<49216, 45888>>, <<9822, 23121>>, <<59830, 51114>>,
     <<54831, 4189>>, <<580, 5203>>, <<55457, 59009>>, <<59347, 64456>>,
     <<8673, 52710>>, <<49975, 2006>>, <<62677, 3463>>, <<17754, 5357>>,
     <<43491, 59653>>, <<64751, 41976>>, <<26479, 729>>, <<36138, 19594>>,
     <<65530, 14658>>, <<34673, 63105>>, <<28061, 24866>>, <<64997, 14348>>,
     <<42174, 59972>>, <<19422, 53161>>, <<63163, 19296>>, <<48831, 48240>>,
     <<10395, 32454>>, <<60065, 10234>>, <<54511, 12421>>, <<1160, 7429>>,
     <<55764, 53305>>, <<59099, 39397>>, <<8098, 31992>>, <<50348, 22117>>,
     <<62505, 8772>>, <<17194, 65431>>, <<43924, 9127>>, <<64659, 41017>>,
     <<25947, 22979>>, <<36620, 52370>>, <<65519, 62589>>, <<34180, 24017>>,
     <<28584, 32335>>, <<65068, 59104>>, <<41729, 17172>>, <<19976, 4513>>,
     <<63315, 32386>>, <<48442, 62005>>, <<10967, 53947>>, <<60294, 54161>> >>

\* The rotation of round i, i = 0..63
Md5Shifts ==
  <<
     7, 12, 17, 22, 7, 12, 17, 22, 7, 12, 17, 22, 7, 12, 17, 22, 5, 9, 14, 20,
     5, 9, 14, 20, 5, 9, 14, 20, 5, 9, 14, 20, 4, 11, 16, 23, 4, 11, 16, 23,
     4, 11, 16, 23, 4, 11, 16, 23, 6, 10, 15, 21, 6, 10, 15, 21, 6, 10, 15,
     21, 6, 10, 15, 21 >>

\* 0x67452301, 0xefcdab89, 0x98badcfe, 0x10325476
Md5InitialState ==
  << <<26437, 8961>>, <<61389, 43913>>, <<39098, 56574>>, <<4146, 21622>> >>

\* The message padded to a multiple of 64 bytes: 0x80, zeros, and the length
\* in bits as 8 little-endian bytes.
Md5Padded(bytes) ==
  LET n == Len(bytes)
      zeros == (55 - (n % 64)) % 64
      bits == 8 * n
  IN  bytes \o <<128>> \o [i \in 1..zeros |-> 0]
        \o <<bits % 256, (bits \div 256) % 256, (bits \div 65536) % 256,
             (bits \div 16777216) % 256, 0, 0, 0, 0>>

\* The j-th little-endian word (j = 0..15) of the block that starts after
\* `offset` bytes.
Md5Word(padded, offset, j) ==
  LET at == offset + (4 * j)
  IN  <<padded[at + 3] + (256 * padded[at + 4]),
        padded[at + 1] + (256 * padded[at + 2])>>

\* Every member is a 32-bit word.
IsWords(ws) ==
  \A k \in 1..Len(ws) : ws[k][1] \in 0..65535 /\ ws[k][2] \in 0..65535

\* Round i (0..63) of one block on the state <<a, b, c, d>>.
Md5Round(st, block, i) ==
  LET a == st[1]
      b == st[2]
      c == st[3]
      d == st[4]
      f == IF i < 16 THEN WordOr(WordAnd(b, c), WordAnd(WordNot(b), d))
           ELSE IF i < 32 THEN WordOr(WordAnd(d, b), WordAnd(WordNot(d), c))
           ELSE IF i < 48 THEN WordXor(WordXor(b, c), d)
           ELSE WordXor(c, WordOr(b, WordNot(d)))
      g == IF i < 16 THEN i
           ELSE IF i < 32 THEN ((5 * i) + 1) % 16
           ELSE IF i < 48 THEN ((3 * i) + 5) % 16
           ELSE (7 * i) % 16
      sum == WordAdd(WordAdd(f, a), WordAdd(Md5Sines[i + 1], block[g + 1]))
  IN  <<d, WordAdd(b, RotateLeft(sum, Md5Shifts[i + 1])), b, c>>

\* The n rounds i, i + 1, ... of one block, the first half before the second.
RECURSIVE Md5Rounds(_, _, _, _)
Md5Rounds(st, block, i, n) ==
  IF n = 1
    THEN LET next == Md5Round(st, block, i)
         IN  CASE IsWords(next) -> next
    ELSE LET half == n \div 2
             mid == Md5Rounds(st, block, i, half)
         IN  CASE IsWords(mid) -> Md5Rounds(mid, block, i + half, n - half)

\* The state after the blocks that start at `offset`.
RECURSIVE Md5Blocks(_, _, _)
Md5Blocks(st, padded, offset) ==
  IF offset >= Len(padded) THEN st
  ELSE LET block == [j \in 1..16 |-> Md5Word(padded, offset, j - 1)]
           out == Md5Rounds(st, block, 0, 64)
           next == <<WordAdd(st[1], out[1]), WordAdd(st[2], out[2]),
                     WordAdd(st[3], out[3]), WordAdd(st[4], out[4])>>
       IN  CASE IsWords(next) -> Md5Blocks(next, padded, offset + 64)

HexDigits ==
  <<"0", "1", "2", "3", "4", "5", "6", "7", "8", "9", "a", "b", "c", "d", "e", "f">>

\* The two hex digits of a byte, and the eight of a word in little-endian
\* byte order.
ByteHex(b) == <<HexDigits[(b \div 16) + 1], HexDigits[(b % 16) + 1]>>
WordHex(w) ==
  ByteHex(w[2] % 256) \o ByteHex(w[2] \div 256)
    \o ByteHex(w[1] % 256) \o ByteHex(w[1] \div 256)

\* md5(value).hexdigest() computed by the algorithm; value is ASCII text.
Md5Hex(value) ==
  LET bytes == [i \in 1..Len(value) |-> CodeOf[value[i]]]
      st == Md5Blocks(Md5InitialState, Md5Padded(bytes), 0)
  IN  WordHex(st[1]) \o WordHex(st[2]) \o WordHex(st[3]) \o WordHex(st[4])

\* md5(value).hexdigest() of the hash inputs of the classes below, each
\* <<value, digest>> with digest = Md5Hex(value): for cls_Foo, cls_Bar and
\* cls_Twin in turn, the input with track_field_order off and on, each with
\* 2 and with 0 file path parts, and the input without the validation-mode
\* schema.
Md5Known ==
  <<
     << <<
         "{", "DQUOTE", "e", "x", "t", "r", "a", "_", "d", "a", "t", "a",
         "DQUOTE", ":", "n", "u", "l", "l", ",", "DQUOTE", "n", "a", "m", "e",
         "DQUOTE", ":", "DQUOTE", "p", "k", "g", ".", "m", "o", "d", "e", "l",
         "s", ".", "F", "o", "o", "DQUOTE", ",", "DQUOTE", "s", "c", "h", "e",
         "m", "a", "s", "DQUOTE", ":", "{", "DQUOTE", "s", "e", "r", "_", "b",
         "y", "_", "a", "l", "i", "a", "s", "DQUOTE", ":", "{", "DQUOTE", "p",
         "r", "o", "p", "e", "r", "t", "i", "e", "s", "DQUOTE", ":", "{",
         "DQUOTE", "a", "DQUOTE", ":", "{", "DQUOTE", "t", "i", "t", "l", "e",
         "DQUOTE", ":", "DQUOTE", "A", "DQUOTE", ",", "DQUOTE", "t", "y", "p",
         "e", "DQUOTE", ":", "DQUOTE", "i", "n", "t", "e", "g", "e", "r",
         "DQUOTE", "}", "}", ",", "DQUOTE", "r", "e", "q", "u", "i", "r", "e",
         "d", "DQUOTE", ":", "[", "DQUOTE", "a", "DQUOTE", "]", ",", "DQUOTE",
         "t", "i", "t", "l", "e", "DQUOTE", ":", "DQUOTE", "F", "o", "o",
         "DQUOTE", ",", "DQUOTE", "t", "y", "p", "e", "DQUOTE", ":", "DQUOTE",
         "o", "b", "j", "e", "c", "t", "DQUOTE", "}", ",", "DQUOTE", "s", "e",
         "r", "_", "b", "y", "_", "n", "a", "m", "e", "DQUOTE", ":", "{",
         "DQUOTE", "p", "r", "o", "p", "e", "r", "t", "i", "e", "s", "DQUOTE",
         ":", "{", "DQUOTE", "a", "DQUOTE", ":", "{", "DQUOTE", "t", "i", "t",
         "l", "e", "DQUOTE", ":", "DQUOTE", "A", "DQUOTE", ",", "DQUOTE", "t",
         "y", "p", "e", "DQUOTE", ":", "DQUOTE", "i", "n", "t", "e", "g", "e",
         "r", "DQUOTE", "}", "}", ",", "DQUOTE", "r", "e", "q", "u", "i", "r",
         "e", "d", "DQUOTE", ":", "[", "DQUOTE", "a", "DQUOTE", "]", ",",
         "DQUOTE", "t", "i", "t", "l", "e", "DQUOTE", ":", "DQUOTE", "F", "o",
         "o", "DQUOTE", ",", "DQUOTE", "t", "y", "p", "e", "DQUOTE", ":",
         "DQUOTE", "o", "b", "j", "e", "c", "t", "DQUOTE", "}", ",", "DQUOTE",
         "v", "a", "l", "_", "b", "y", "_", "a", "l", "i", "a", "s", "DQUOTE",
         ":", "{", "DQUOTE", "p", "r", "o", "p", "e", "r", "t", "i", "e", "s",
         "DQUOTE", ":", "{", "DQUOTE", "a", "DQUOTE", ":", "{", "DQUOTE", "t",
         "i", "t", "l", "e", "DQUOTE", ":", "DQUOTE", "A", "DQUOTE", ",",
         "DQUOTE", "t", "y", "p", "e", "DQUOTE", ":", "DQUOTE", "i", "n", "t",
         "e", "g", "e", "r", "DQUOTE", "}", "}", ",", "DQUOTE", "r", "e", "q",
         "u", "i", "r", "e", "d", "DQUOTE", ":", "[", "DQUOTE", "a", "DQUOTE",
         "]", ",", "DQUOTE", "t", "i", "t", "l", "e", "DQUOTE", ":", "DQUOTE",
         "F", "o", "o", "DQUOTE", ",", "DQUOTE", "t", "y", "p", "e", "DQUOTE",
         ":", "DQUOTE", "o", "b", "j", "e", "c", "t", "DQUOTE", "}", "}", "}" >>,
        <<
         "e", "4", "6", "c", "b", "5", "4", "0", "3", "7", "8", "e", "3", "5",
         "9", "8", "0", "a", "e", "f", "3", "4", "0", "0", "3", "1", "2", "8",
         "8", "5", "f", "0" >> >>,
     << <<
         "{", "DQUOTE", "e", "x", "t", "r", "a", "_", "d", "a", "t", "a",
         "DQUOTE", ":", "n", "u", "l", "l", ",", "DQUOTE", "n", "a", "m", "e",
         "DQUOTE", ":", "DQUOTE", "F", "o", "o", "DQUOTE", ",", "DQUOTE", "s",
         "c", "h", "e", "m", "a", "s", "DQUOTE", ":", "{", "DQUOTE", "s", "e",
         "r", "_", "b", "y", "_", "a", "l", "i", "a", "s", "DQUOTE", ":", "{",
         "DQUOTE", "p", "r", "o", "p", "e", "r", "t", "i", "e", "s", "DQUOTE",
         ":", "{", "DQUOTE", "a", "DQUOTE", ":", "{", "DQUOTE", "t", "i", "t",
         "l", "e", "DQUOTE", ":", "DQUOTE", "A", "DQUOTE", ",", "DQUOTE", "t",
         "y", "p", "e", "DQUOTE", ":", "DQUOTE", "i", "n", "t", "e", "g", "e",
         "r", "DQUOTE", "}", "}", ",", "DQUOTE", "r", "e", "q", "u", "i", "r",
         "e", "d", "DQUOTE", ":", "[", "DQUOTE", "a", "DQUOTE", "]", ",",
         "DQUOTE", "t", "i", "t", "l", "e", "DQUOTE", ":", "DQUOTE", "F", "o",
         "o", "DQUOTE", ",", "DQUOTE", "t", "y", "p", "e", "DQUOTE", ":",
         "DQUOTE", "o", "b", "j", "e", "c", "t", "DQUOTE", "}", ",", "DQUOTE",
         "s", "e", "r", "_", "b", "y", "_", "n", "a", "m", "e", "DQUOTE", ":",
         "{", "DQUOTE", "p", "r", "o", "p", "e", "r", "t", "i", "e", "s",
         "DQUOTE", ":", "{", "DQUOTE", "a", "DQUOTE", ":", "{", "DQUOTE", "t",
         "i", "t", "l", "e", "DQUOTE", ":", "DQUOTE", "A", "DQUOTE", ",",
         "DQUOTE", "t", "y", "p", "e", "DQUOTE", ":", "DQUOTE", "i", "n", "t",
         "e", "g", "e", "r", "DQUOTE", "}", "}", ",", "DQUOTE", "r", "e", "q",
         "u", "i", "r", "e", "d", "DQUOTE", ":", "[", "DQUOTE", "a", "DQUOTE",
         "]", ",", "DQUOTE", "t", "i", "t", "l", "e", "DQUOTE", ":", "DQUOTE",
         "F", "o", "o", "DQUOTE", ",", "DQUOTE", "t", "y", "p", "e", "DQUOTE",
         ":", "DQUOTE", "o", "b", "j", "e", "c", "t", "DQUOTE", "}", ",",
         "DQUOTE", "v", "a", "l", "_", "b", "y", "_", "a", "l", "i", "a", "s",
         "DQUOTE", ":", "{", "DQUOTE", "p", "r", "o", "p", "e", "r", "t", "i",
         "e", "s", "DQUOTE", ":", "{", "DQUOTE", "a", "DQUOTE", ":", "{",
         "DQUOTE", "t", "i", "t", "l", "e", "DQUOTE", ":", "DQUOTE", "A",
         "DQUOTE", ",", "DQUOTE", "t", "y", "p", "e", "DQUOTE", ":", "DQUOTE",
         "i", "n", "t", "e", "g", "e", "r", "DQUOTE", "}", "}", ",", "DQUOTE",
         "r", "e", "q", "u", "i", "r", "e", "d", "DQUOTE", ":", "[", "DQUOTE",
         "a", "DQUOTE", "]", ",", "DQUOTE", "t", "i", "t", "l", "e", "DQUOTE",
         ":", "DQUOTE", "F", "o", "o", "DQUOTE", ",", "DQUOTE", "t", "y", "p",
         "e", "DQUOTE", ":", "DQUOTE", "o", "b", "j", "e", "c", "t", "DQUOTE",
         "}", "}", "}" >>,
        <<
         "6", "9", "f", "6", "5", "9", "8", "5", "7", "4", "6", "6", "b", "1",
         "6", "0", "3", "6", "5", "5", "3", "7", "7", "f", "0", "f", "0", "6",
         "2", "a", "0", "f" >> >>,
     << <<
         "{", "DQUOTE", "n", "a", "m", "e", "DQUOTE", ":", "DQUOTE", "p", "k",
         "g", ".", "m", "o", "d", "e", "l", "s", ".", "F", "o", "o", "DQUOTE",
         ",", "DQUOTE", "s", "c", "h", "e", "m", "a", "s", "DQUOTE", ":", "{",
         "DQUOTE", "s", "e", "r", "_", "b", "y", "_", "a", "l", "i", "a", "s",
         "DQUOTE", ":", "{", "DQUOTE", "p", "r", "o", "p", "e", "r", "t", "i",
         "e", "s", "DQUOTE", ":", "{", "DQUOTE", "a", "DQUOTE", ":", "{",
         "DQUOTE", "t", "i", "t", "l", "e", "DQUOTE", ":", "DQUOTE", "A",
         "DQUOTE", ",", "DQUOTE", "t", "y", "p", "e", "DQUOTE", ":", "DQUOTE",
         "i", "n", "t", "e", "g", "e", "r", "DQUOTE", "}", "}", ",", "DQUOTE",
         "r", "e", "q", "u", "i", "r", "e", "d", "DQUOTE", ":", "[", "DQUOTE",
         "a", "DQUOTE", "]", ",", "DQUOTE", "t", "i", "t", "l", "e", "DQUOTE",
         ":", "DQUOTE", "F", "o", "o", "DQUOTE", ",", "DQUOTE", "t", "y", "p",
         "e", "DQUOTE", ":", "DQUOTE", "o", "b", "j", "e", "c", "t", "DQUOTE",
         "}", ",", "DQUOTE", "s", "e", "r", "_", "b", "y", "_", "n", "a", "m",
         "e", "DQUOTE", ":", "{", "DQUOTE", "p", "r", "o", "p", "e", "r", "t",
         "i", "e", "s", "DQUOTE", ":", "{", "DQUOTE", "a", "DQUOTE", ":", "{",
         "DQUOTE", "t", "i", "t", "l", "e", "DQUOTE", ":", "DQUOTE", "A",
         "DQUOTE", ",", "DQUOTE", "t", "y", "p", "e", "DQUOTE", ":", "DQUOTE",
         "i", "n", "t", "e", "g", "e", "r", "DQUOTE", "}", "}", ",", "DQUOTE",
         "r", "e", "q", "u", "i", "r", "e", "d", "DQUOTE", ":", "[", "DQUOTE",
         "a", "DQUOTE", "]", ",", "DQUOTE", "t", "i", "t", "l", "e", "DQUOTE",
         ":", "DQUOTE", "F", "o", "o", "DQUOTE", ",", "DQUOTE", "t", "y", "p",
         "e", "DQUOTE", ":", "DQUOTE", "o", "b", "j", "e", "c", "t", "DQUOTE",
         "}", ",", "DQUOTE", "v", "a", "l", "_", "b", "y", "_", "a", "l", "i",
         "a", "s", "DQUOTE", ":", "{", "DQUOTE", "p", "r", "o", "p", "e", "r",
         "t", "i", "e", "s", "DQUOTE", ":", "{", "DQUOTE", "a", "DQUOTE", ":",
         "{", "DQUOTE", "t", "i", "t", "l", "e", "DQUOTE", ":", "DQUOTE", "A",
         "DQUOTE", ",", "DQUOTE", "t", "y", "p", "e", "DQUOTE", ":", "DQUOTE",
         "i", "n", "t", "e", "g", "e", "r", "DQUOTE", "}", "}", ",", "DQUOTE",
         "r", "e", "q", "u", "i", "r", "e", "d", "DQUOTE", ":", "[", "DQUOTE",
         "a", "DQUOTE", "]", ",", "DQUOTE", "t", "i", "t", "l", "e", "DQUOTE",
         ":", "DQUOTE", "F", "o", "o", "DQUOTE", ",", "DQUOTE", "t", "y", "p",
         "e", "DQUOTE", ":", "DQUOTE", "o", "b", "j", "e", "c", "t", "DQUOTE",
         "}", "}", ",", "DQUOTE", "e", "x", "t", "r", "a", "_", "d", "a", "t",
         "a", "DQUOTE", ":", "n", "u", "l", "l", "}" >>,
        <<
         "5", "1", "b", "6", "4", "2", "e", "f", "3", "1", "c", "7", "0", "4",
         "3", "5", "e", "1", "b", "7", "7", "6", "b", "9", "f", "1", "1", "2",
         "8", "0", "a", "7" >> >>,
     << <<
         "{", "DQUOTE", "n", "a", "m", "e", "DQUOTE", ":", "DQUOTE", "F", "o",
         "o", "DQUOTE", ",", "DQUOTE", "s", "c", "h", "e", "m", "a", "s",
         "DQUOTE", ":", "{", "DQUOTE", "s", "e", "r", "_", "b", "y", "_", "a",
         "l", "i", "a", "s", "DQUOTE", ":", "{", "DQUOTE", "p", "r", "o", "p",
         "e", "r", "t", "i", "e", "s", "DQUOTE", ":", "{", "DQUOTE", "a",
         "DQUOTE", ":", "{", "DQUOTE", "t", "i", "t", "l", "e", "DQUOTE", ":",
         "DQUOTE", "A", "DQUOTE", ",", "DQUOTE", "t", "y", "p", "e", "DQUOTE",
         ":", "DQUOTE", "i", "n", "t", "e", "g", "e", "r", "DQUOTE", "}", "}",
         ",", "DQUOTE", "r", "e", "q", "u", "i", "r", "e", "d", "DQUOTE", ":",
         "[", "DQUOTE", "a", "DQUOTE", "]", ",", "DQUOTE", "t", "i", "t", "l",
         "e", "DQUOTE", ":", "DQUOTE", "F", "o", "o", "DQUOTE", ",", "DQUOTE",
         "t", "y", "p", "e", "DQUOTE", ":", "DQUOTE", "o", "b", "j", "e", "c",
         "t", "DQUOTE", "}", ",", "DQUOTE", "s", "e", "r", "_", "b", "y", "_",
         "n", "a", "m", "e", "DQUOTE", ":", "{", "DQUOTE", "p", "r", "o", "p",
         "e", "r", "t", "i", "e", "s", "DQUOTE", ":", "{", "DQUOTE", "a",
         "DQUOTE", ":", "{", "DQUOTE", "t", "i", "t", "l", "e", "DQUOTE", ":",
         "DQUOTE", "A", "DQUOTE", ",", "DQUOTE", "t", "y", "p", "e", "DQUOTE",
         ":", "DQUOTE", "i", "n", "t", "e", "g", "e", "r", "DQUOTE", "}", "}",
         ",", "DQUOTE", "r", "e", "q", "u", "i", "r", "e", "d", "DQUOTE", ":",
         "[", "DQUOTE", "a", "DQUOTE", "]", ",", "DQUOTE", "t", "i", "t", "l",
         "e", "DQUOTE", ":", "DQUOTE", "F", "o", "o", "DQUOTE", ",", "DQUOTE",
         "t", "y", "p", "e", "DQUOTE", ":", "DQUOTE", "o", "b", "j", "e", "c",
         "t", "DQUOTE", "}", ",", "DQUOTE", "v", "a", "l", "_", "b", "y", "_",
         "a", "l", "i", "a", "s", "DQUOTE", ":", "{", "DQUOTE", "p", "r", "o",
         "p", "e", "r", "t", "i", "e", "s", "DQUOTE", ":", "{", "DQUOTE", "a",
         "DQUOTE", ":", "{", "DQUOTE", "t", "i", "t", "l", "e", "DQUOTE", ":",
         "DQUOTE", "A", "DQUOTE", ",", "DQUOTE", "t", "y", "p", "e", "DQUOTE",
         ":", "DQUOTE", "i", "n", "t", "e", "g", "e", "r", "DQUOTE", "}", "}",
         ",", "DQUOTE", "r", "e", "q", "u", "i", "r", "e", "d", "DQUOTE", ":",
         "[", "DQUOTE", "a", "DQUOTE", "]", ",", "DQUOTE", "t", "i", "t", "l",
         "e", "DQUOTE", ":", "DQUOTE", "F", "o", "o", "DQUOTE", ",", "DQUOTE",
         "t", "y", "p", "e", "DQUOTE", ":", "DQUOTE", "o", "b", "j", "e", "c",
         "t", "DQUOTE", "}", "}", ",", "DQUOTE", "e", "x", "t", "r", "a", "_",
         "d", "a", "t", "a", "DQUOTE", ":", "n", "u", "l", "l", "}" >>,
        <<
         "a", "4", "a", "2", "7", "8", "d", "3", "0", "8", "7", "b", "5", "8",
         "a", "f", "6", "0", "2", "d", "a", "3", "8", "8", "b", "3", "b", "d",
         "b", "6", "e", "7" >> >>,
     << <<
         "{", "DQUOTE", "e", "x", "t", "r", "a", "_", "d", "a", "t", "a",
         "DQUOTE", ":", "n", "u", "l", "l", ",", "DQUOTE", "n", "a", "m", "e",
         "DQUOTE", ":", "DQUOTE", "p", "k", "g", ".", "m", "o", "d", "e", "l",
         "s", ".", "F", "o", "o", "DQUOTE", ",", "DQUOTE", "s", "c", "h", "e",
         "m", "a", "s", "DQUOTE", ":", "{", "DQUOTE", "s", "e", "r", "_", "b",
         "y", "_", "a", "l", "i", "a", "s", "DQUOTE", ":", "{", "DQUOTE", "p",
         "r", "o", "p", "e", "r", "t", "i", "e", "s", "DQUOTE", ":", "{",
         "DQUOTE", "a", "DQUOTE", ":", "{", "DQUOTE", "t", "i", "t", "l", "e",
         "DQUOTE", ":", "DQUOTE", "A", "DQUOTE", ",", "DQUOTE", "t", "y", "p",
         "e", "DQUOTE", ":", "DQUOTE", "i", "n", "t", "e", "g", "e", "r",
         "DQUOTE", "}", "}", ",", "DQUOTE", "r", "e", "q", "u", "i", "r", "e",
         "d", "DQUOTE", ":", "[", "DQUOTE", "a", "DQUOTE", "]", ",", "DQUOTE",
         "t", "i", "t", "l", "e", "DQUOTE", ":", "DQUOTE", "F", "o", "o",
         "DQUOTE", ",", "DQUOTE", "t", "y", "p", "e", "DQUOTE", ":", "DQUOTE",
         "o", "b", "j", "e", "c", "t", "DQUOTE", "}", ",", "DQUOTE", "s", "e",
         "r", "_", "b", "y", "_", "n", "a", "m", "e", "DQUOTE", ":", "{",
         "DQUOTE", "p", "r", "o", "p", "e", "r", "t", "i", "e", "s", "DQUOTE",
         ":", "{", "DQUOTE", "a", "DQUOTE", ":", "{", "DQUOTE", "t", "i", "t",
         "l", "e", "DQUOTE", ":", "DQUOTE", "A", "DQUOTE", ",", "DQUOTE", "t",
         "y", "p", "e", "DQUOTE", ":", "DQUOTE", "i", "n", "t", "e", "g", "e",
         "r", "DQUOTE", "}", "}", ",", "DQUOTE", "r", "e", "q", "u", "i", "r",
         "e", "d", "DQUOTE", ":", "[", "DQUOTE", "a", "DQUOTE", "]", ",",
         "DQUOTE", "t", "i", "t", "l", "e", "DQUOTE", ":", "DQUOTE", "F", "o",
         "o", "DQUOTE", ",", "DQUOTE", "t", "y", "p", "e", "DQUOTE", ":",
         "DQUOTE", "o", "b", "j", "e", "c", "t", "DQUOTE", "}", "}", "}" >>,
        <<
         "8", "a", "1", "f", "1", "8", "6", "6", "1", "a", "1", "f", "8", "f",
         "e", "6", "5", "d", "d", "b", "5", "5", "2", "e", "5", "e", "2", "0",
         "b", "e", "6", "c" >> >>,
     << <<
         "{", "DQUOTE", "e", "x", "t", "r", "a", "_", "d", "a", "t", "a",
         "DQUOTE", ":", "n", "u", "l", "l", ",", "DQUOTE", "n", "a", "m", "e",
         "DQUOTE", ":", "DQUOTE", "p", "k", "g", ".", "m", "o", "d", "e", "l",
         "s", ".", "B", "a", "r", "DQUOTE", ",", "DQUOTE", "s", "c", "h", "e",
         "m", "a", "s", "DQUOTE", ":", "{", "DQUOTE", "s", "e", "r", "_", "b",
         "y", "_", "a", "l", "i", "a", "s", "DQUOTE", ":", "{", "DQUOTE", "p",
         "r", "o", "p", "e", "r", "t", "i", "e", "s", "DQUOTE", ":", "{",
         "DQUOTE", "a", "DQUOTE", ":", "{", "DQUOTE", "t", "i", "t", "l", "e",
         "DQUOTE", ":", "DQUOTE", "A", "DQUOTE", ",", "DQUOTE", "t", "y", "p",
         "e", "DQUOTE", ":", "DQUOTE", "i", "n", "t", "e", "g", "e", "r",
         "DQUOTE", "}", ",", "DQUOTE", "b", "DQUOTE", ":", "{", "DQUOTE", "t",
         "i", "t", "l", "e", "DQUOTE", ":", "DQUOTE", "B", "DQUOTE", ",",
         "DQUOTE", "t", "y", "p", "e", "DQUOTE", ":", "DQUOTE", "i", "n", "t",
         "e", "g", "e", "r", "DQUOTE", "}", "}", ",", "DQUOTE", "r", "e", "q",
         "u", "i", "r", "e", "d", "DQUOTE", ":", "[", "DQUOTE", "a", "DQUOTE",
         ",", "DQUOTE", "b", "DQUOTE", "]", ",", "DQUOTE", "t", "i", "t", "l",
         "e", "DQUOTE", ":", "DQUOTE", "B", "a", "r", "DQUOTE", ",", "DQUOTE",
         "t", "y", "p", "e", "DQUOTE", ":", "DQUOTE", "o", "b", "j", "e", "c",
         "t", "DQUOTE", "}", ",", "DQUOTE", "s", "e", "r", "_", "b", "y", "_",
         "n", "a", "m", "e", "DQUOTE", ":", "{", "DQUOTE", "p", "r", "o", "p",
         "e", "r", "t", "i", "e", "s", "DQUOTE", ":", "{", "DQUOTE", "a",
         "DQUOTE", ":", "{", "DQUOTE", "t", "i", "t", "l", "e", "DQUOTE", ":",
         "DQUOTE", "A", "DQUOTE", ",", "DQUOTE", "t", "y", "p", "e", "DQUOTE",
         ":", "DQUOTE", "i", "n", "t", "e", "g", "e", "r", "DQUOTE", "}", ",",
         "DQUOTE", "b", "DQUOTE", ":", "{", "DQUOTE", "t", "i", "t", "l", "e",
         "DQUOTE", ":", "DQUOTE", "B", "DQUOTE", ",", "DQUOTE", "t", "y", "p",
         "e", "DQUOTE", ":", "DQUOTE", "i", "n", "t", "e", "g", "e", "r",
         "DQUOTE", "}", "}", ",", "DQUOTE", "r", "e", "q", "u", "i", "r", "e",
         "d", "DQUOTE", ":", "[", "DQUOTE", "a", "DQUOTE", ",", "DQUOTE", "b",
         "DQUOTE", "]", ",", "DQUOTE", "t", "i", "t", "l", "e", "DQUOTE", ":",
         "DQUOTE", "B", "a", "r", "DQUOTE", ",", "DQUOTE", "t", "y", "p", "e",
         "DQUOTE", ":", "DQUOTE", "o", "b", "j", "e", "c", "t", "DQUOTE", "}",
         ",", "DQUOTE", "v", "a", "l", "_", "b", "y", "_", "a", "l", "i", "a",
         "s", "DQUOTE", ":", "{", "DQUOTE", "p", "r", "o", "p", "e", "r", "t",
         "i", "e", "s", "DQUOTE", ":", "{", "DQUOTE", "a", "DQUOTE", ":", "{",
         "DQUOTE", "t", "i", "t", "l", "e", "DQUOTE", ":", "DQUOTE", "A",
         "DQUOTE", ",", "DQUOTE", "t", "y", "p", "e", "DQUOTE", ":", "DQUOTE",
         "i", "n", "t", "e", "g", "e", "r", "DQUOTE", "}", ",", "DQUOTE", "b",
         "DQUOTE", ":", "{", "DQUOTE", "t", "i", "t", "l", "e", "DQUOTE", ":",
         "DQUOTE", "B", "DQUOTE", ",", "DQUOTE", "t", "y", "p", "e", "DQUOTE",
         ":", "DQUOTE", "i", "n", "t", "e", "g", "e", "r", "DQUOTE", "}", "}",
         ",", "DQUOTE", "r", "e", "q", "u", "i", "r", "e", "d", "DQUOTE", ":",
         "[", "DQUOTE", "a", "DQUOTE", ",", "DQUOTE", "b", "DQUOTE", "]", ",",
         "DQUOTE", "t", "i", "t", "l", "e", "DQUOTE", ":", "DQUOTE", "B", "a",
         "r", "DQUOTE", ",", "DQUOTE", "t", "y", "p", "e", "DQUOTE", ":",
         "DQUOTE", "o", "b", "j", "e", "c", "t", "DQUOTE", "}", "}", "}" >>,
        <<
         "a", "7", "b", "7", "7", "6", "d", "4", "e", "3", "0", "4", "7", "7",
         "7", "7", "e", "5", "6", "5", "b", "d", "f", "c", "2", "f", "8", "9",
         "b", "9", "d", "7" >> >>,
     << <<
         "{", "DQUOTE", "e", "x", "t", "r", "a", "_", "d", "a", "t", "a",
         "DQUOTE", ":", "n", "u", "l", "l", ",", "DQUOTE", "n", "a", "m", "e",
         "DQUOTE", ":", "DQUOTE", "B", "a", "r", "DQUOTE", ",", "DQUOTE", "s",
         "c", "h", "e", "m", "a", "s", "DQUOTE", ":", "{", "DQUOTE", "s", "e",
         "r", "_", "b", "y", "_", "a", "l", "i", "a", "s", "DQUOTE", ":", "{",
         "DQUOTE", "p", "r", "o", "p", "e", "r", "t", "i", "e", "s", "DQUOTE",
         ":", "{", "DQUOTE", "a", "DQUOTE", ":", "{", "DQUOTE", "t", "i", "t",
         "l", "e", "DQUOTE", ":", "DQUOTE", "A", "DQUOTE", ",", "DQUOTE", "t",
         "y", "p", "e", "DQUOTE", ":", "DQUOTE", "i", "n", "t", "e", "g", "e",
         "r", "DQUOTE", "}", ",", "DQUOTE", "b", "DQUOTE", ":", "{", "DQUOTE",
         "t", "i", "t", "l", "e", "DQUOTE", ":", "DQUOTE", "B", "DQUOTE", ",",
         "DQUOTE", "t", "y", "p", "e", "DQUOTE", ":", "DQUOTE", "i", "n", "t",
         "e", "g", "e", "r", "DQUOTE", "}", "}", ",", "DQUOTE", "r", "e", "q",
         "u", "i", "r", "e", "d", "DQUOTE", ":", "[", "DQUOTE", "a", "DQUOTE",
         ",", "DQUOTE", "b", "DQUOTE", "]", ",", "DQUOTE", "t", "i", "t", "l",
         "e", "DQUOTE", ":", "DQUOTE", "B", "a", "r", "DQUOTE", ",", "DQUOTE",
         "t", "y", "p", "e", "DQUOTE", ":", "DQUOTE", "o", "b", "j", "e", "c",
         "t", "DQUOTE", "}", ",", "DQUOTE", "s", "e", "r", "_", "b", "y", "_",
         "n", "a", "m", "e", "DQUOTE", ":", "{", "DQUOTE", "p", "r", "o", "p",
         "e", "r", "t", "i", "e", "s", "DQUOTE", ":", "{", "DQUOTE", "a",
         "DQUOTE", ":", "{", "DQUOTE", "t", "i", "t", "l", "e", "DQUOTE", ":",
         "DQUOTE", "A", "DQUOTE", ",", "DQUOTE", "t", "y", "p", "e", "DQUOTE",
         ":", "DQUOTE", "i", "n", "t", "e", "g", "e", "r", "DQUOTE", "}", ",",
         "DQUOTE", "b", "DQUOTE", ":", "{", "DQUOTE", "t", "i", "t", "l", "e",
         "DQUOTE", ":", "DQUOTE", "B", "DQUOTE", ",", "DQUOTE", "t", "y", "p",
         "e", "DQUOTE", ":", "DQUOTE", "i", "n", "t", "e", "g", "e", "r",
         "DQUOTE", "}", "}", ",", "DQUOTE", "r", "e", "q", "u", "i", "r", "e",
         "d", "DQUOTE", ":", "[", "DQUOTE", "a", "DQUOTE", ",", "DQUOTE", "b",
         "DQUOTE", "]", ",", "DQUOTE", "t", "i", "t", "l", "e", "DQUOTE", ":",
         "DQUOTE", "B", "a", "r", "DQUOTE", ",", "DQUOTE", "t", "y", "p", "e",
         "DQUOTE", ":", "DQUOTE", "o", "b", "j", "e", "c", "t", "DQUOTE", "}",
         ",", "DQUOTE", "v", "a", "l", "_", "b", "y", "_", "a", "l", "i", "a",
         "s", "DQUOTE", ":", "{", "DQUOTE", "p", "r", "o", "p", "e", "r", "t",
         "i", "e", "s", "DQUOTE", ":", "{", "DQUOTE", "a", "DQUOTE", ":", "{",
         "DQUOTE", "t", "i", "t", "l", "e", "DQUOTE", ":", "DQUOTE", "A",
         "DQUOTE", ",", "DQUOTE", "t", "y", "p", "e", "DQUOTE", ":", "DQUOTE",
         "i", "n", "t", "e", "g", "e", "r", "DQUOTE", "}", ",", "DQUOTE", "b",
         "DQUOTE", ":", "{", "DQUOTE", "t", "i", "t", "l", "e", "DQUOTE", ":",
         "DQUOTE", "B", "DQUOTE", ",", "DQUOTE", "t", "y", "p", "e", "DQUOTE",
         ":", "DQUOTE", "i", "n", "t", "e", "g", "e", "r", "DQUOTE", "}", "}",
         ",", "DQUOTE", "r", "e", "q", "u", "i", "r", "e", "d", "DQUOTE", ":",
         "[", "DQUOTE", "a", "DQUOTE", ",", "DQUOTE", "b", "DQUOTE", "]", ",",
         "DQUOTE", "t", "i", "t", "l", "e", "DQUOTE", ":", "DQUOTE", "B", "a",
         "r", "DQUOTE", ",", "DQUOTE", "t", "y", "p", "e", "DQUOTE", ":",
         "DQUOTE", "o", "b", "j", "e", "c", "t", "DQUOTE", "}", "}", "}" >>,
        <<
         "c", "4", "b", "a", "4", "4", "e", "a", "0", "1", "7", "9", "0", "2",
         "2", "1", "b", "2", "f", "e", "c", "7", "8", "9", "7", "8", "5", "e",
         "8", "0", "4", "0" >> >>,
     << <<
         "{", "DQUOTE", "n", "a", "m", "e", "DQUOTE", ":", "DQUOTE", "p", "k",
         "g", ".", "m", "o", "d", "e", "l", "s", ".", "B", "a", "r", "DQUOTE",
         ",", "DQUOTE", "s", "c", "h", "e", "m", "a", "s", "DQUOTE", ":", "{",
         "DQUOTE", "s", "e", "r", "_", "b", "y", "_", "a", "l", "i", "a", "s",
         "DQUOTE", ":", "{", "DQUOTE", "p", "r", "o", "p", "e", "r", "t", "i",
         "e", "s", "DQUOTE", ":", "{", "DQUOTE", "a", "DQUOTE", ":", "{",
         "DQUOTE", "t", "i", "t", "l", "e", "DQUOTE", ":", "DQUOTE", "A",
         "DQUOTE", ",", "DQUOTE", "t", "y", "p", "e", "DQUOTE", ":", "DQUOTE",
         "i", "n", "t", "e", "g", "e", "r", "DQUOTE", "}", ",", "DQUOTE", "b",
         "DQUOTE", ":", "{", "DQUOTE", "t", "i", "t", "l", "e", "DQUOTE", ":",
         "DQUOTE", "B", "DQUOTE", ",", "DQUOTE", "t", "y", "p", "e", "DQUOTE",
         ":", "DQUOTE", "i", "n", "t", "e", "g", "e", "r", "DQUOTE", "}", "}",
         ",", "DQUOTE", "r", "e", "q", "u", "i", "r", "e", "d", "DQUOTE", ":",
         "[", "DQUOTE", "a", "DQUOTE", ",", "DQUOTE", "b", "DQUOTE", "]", ",",
         "DQUOTE", "t", "i", "t", "l", "e", "DQUOTE", ":", "DQUOTE", "B", "a",
         "r", "DQUOTE", ",", "DQUOTE", "t", "y", "p", "e", "DQUOTE", ":",
         "DQUOTE", "o", "b", "j", "e", "c", "t", "DQUOTE", "}", ",", "DQUOTE",
         "s", "e", "r", "_", "b", "y", "_", "n", "a", "m", "e", "DQUOTE", ":",
         "{", "DQUOTE", "p", "r", "o", "p", "e", "r", "t", "i", "e", "s",
         "DQUOTE", ":", "{", "DQUOTE", "a", "DQUOTE", ":", "{", "DQUOTE", "t",
         "i", "t", "l", "e", "DQUOTE", ":", "DQUOTE", "A", "DQUOTE", ",",
         "DQUOTE", "t", "y", "p", "e", "DQUOTE", ":", "DQUOTE", "i", "n", "t",
         "e", "g", "e", "r", "DQUOTE", "}", ",", "DQUOTE", "b", "DQUOTE", ":",
         "{", "DQUOTE", "t", "i", "t", "l", "e", "DQUOTE", ":", "DQUOTE", "B",
         "DQUOTE", ",", "DQUOTE", "t", "y", "p", "e", "DQUOTE", ":", "DQUOTE",
         "i", "n", "t", "e", "g", "e", "r", "DQUOTE", "}", "}", ",", "DQUOTE",
         "r", "e", "q", "u", "i", "r", "e", "d", "DQUOTE", ":", "[", "DQUOTE",
         "a", "DQUOTE", ",", "DQUOTE", "b", "DQUOTE", "]", ",", "DQUOTE", "t",
         "i", "t", "l", "e", "DQUOTE", ":", "DQUOTE", "B", "a", "r", "DQUOTE",
         ",", "DQUOTE", "t", "y", "p", "e", "DQUOTE", ":", "DQUOTE", "o", "b",
         "j", "e", "c", "t", "DQUOTE", "}", ",", "DQUOTE", "v", "a", "l", "_",
         "b", "y", "_", "a", "l", "i", "a", "s", "DQUOTE", ":", "{", "DQUOTE",
         "p", "r", "o", "p", "e", "r", "t", "i", "e", "s", "DQUOTE", ":", "{",
         "DQUOTE", "a", "DQUOTE", ":", "{", "DQUOTE", "t", "i", "t", "l", "e",
         "DQUOTE", ":", "DQUOTE", "A", "DQUOTE", ",", "DQUOTE", "t", "y", "p",
         "e", "DQUOTE", ":", "DQUOTE", "i", "n", "t", "e", "g", "e", "r",
         "DQUOTE", "}", ",", "DQUOTE", "b", "DQUOTE", ":", "{", "DQUOTE", "t",
         "i", "t", "l", "e", "DQUOTE", ":", "DQUOTE", "B", "DQUOTE", ",",
         "DQUOTE", "t", "y", "p", "e", "DQUOTE", ":", "DQUOTE", "i", "n", "t",
         "e", "g", "e", "r", "DQUOTE", "}", "}", ",", "DQUOTE", "r", "e", "q",
         "u", "i", "r", "e", "d", "DQUOTE", ":", "[", "DQUOTE", "a", "DQUOTE",
         ",", "DQUOTE", "b", "DQUOTE", "]", ",", "DQUOTE", "t", "i", "t", "l",
         "e", "DQUOTE", ":", "DQUOTE", "B", "a", "r", "DQUOTE", ",", "DQUOTE",
         "t", "y", "p", "e", "DQUOTE", ":", "DQUOTE", "o", "b", "j", "e", "c",
         "t", "DQUOTE", "}", "}", ",", "DQUOTE", "e", "x", "t", "r", "a", "_",
         "d", "a", "t", "a", "DQUOTE", ":", "n", "u", "l", "l", "}" >>,
        <<
         "1", "8", "7", "a", "7", "0", "1", "e", "f", "3", "7", "9", "1", "4",
         "3", "1", "3", "f", "f", "3", "c", "c", "c", "1", "5", "d", "3", "6",
         "5", "4", "8", "0" >> >>,
     << <<
         "{", "DQUOTE", "n", "a", "m", "e", "DQUOTE", ":", "DQUOTE", "B", "a",
         "r", "DQUOTE", ",", "DQUOTE", "s", "c", "h", "e", "m", "a", "s",
         "DQUOTE", ":", "{", "DQUOTE", "s", "e", "r", "_", "b", "y", "_", "a",
         "l", "i", "a", "s", "DQUOTE", ":", "{", "DQUOTE", "p", "r", "o", "p",
         "e", "r", "t", "i", "e", "s", "DQUOTE", ":", "{", "DQUOTE", "a",
         "DQUOTE", ":", "{", "DQUOTE", "t", "i", "t", "l", "e", "DQUOTE", ":",
         "DQUOTE", "A", "DQUOTE", ",", "DQUOTE", "t", "y", "p", "e", "DQUOTE",
         ":", "DQUOTE", "i", "n", "t", "e", "g", "e", "r", "DQUOTE", "}", ",",
         "DQUOTE", "b", "DQUOTE", ":", "{", "DQUOTE", "t", "i", "t", "l", "e",
         "DQUOTE", ":", "DQUOTE", "B", "DQUOTE", ",", "DQUOTE", "t", "y", "p",
         "e", "DQUOTE", ":", "DQUOTE", "i", "n", "t", "e", "g", "e", "r",
         "DQUOTE", "}", "}", ",", "DQUOTE", "r", "e", "q", "u", "i", "r", "e",
         "d", "DQUOTE", ":", "[", "DQUOTE", "a", "DQUOTE", ",", "DQUOTE", "b",
         "DQUOTE", "]", ",", "DQUOTE", "t", "i", "t", "l", "e", "DQUOTE", ":",
         "DQUOTE", "B", "a", "r", "DQUOTE", ",", "DQUOTE", "t", "y", "p", "e",
         "DQUOTE", ":", "DQUOTE", "o", "b", "j", "e", "c", "t", "DQUOTE", "}",
         ",", "DQUOTE", "s", "e", "r", "_", "b", "y", "_", "n", "a", "m", "e",
         "DQUOTE", ":", "{", "DQUOTE", "p", "r", "o", "p", "e", "r", "t", "i",
         "e", "s", "DQUOTE", ":", "{", "DQUOTE", "a", "DQUOTE", ":", "{",
         "DQUOTE", "t", "i", "t", "l", "e", "DQUOTE", ":", "DQUOTE", "A",
         "DQUOTE", ",", "DQUOTE", "t", "y", "p", "e", "DQUOTE", ":", "DQUOTE",
         "i", "n", "t", "e", "g", "e", "r", "DQUOTE", "}", ",", "DQUOTE", "b",
         "DQUOTE", ":", "{", "DQUOTE", "t", "i", "t", "l", "e", "DQUOTE", ":",
         "DQUOTE", "B", "DQUOTE", ",", "DQUOTE", "t", "y", "p", "e", "DQUOTE",
         ":", "DQUOTE", "i", "n", "t", "e", "g", "e", "r", "DQUOTE", "}", "}",
         ",", "DQUOTE", "r", "e", "q", "u", "i", "r", "e", "d", "DQUOTE", ":",
         "[", "DQUOTE", "a", "DQUOTE", ",", "DQUOTE", "b", "DQUOTE", "]", ",",
         "DQUOTE", "t", "i", "t", "l", "e", "DQUOTE", ":", "DQUOTE", "B", "a",
         "r", "DQUOTE", ",", "DQUOTE", "t", "y", "p", "e", "DQUOTE", ":",
         "DQUOTE", "o", "b", "j", "e", "c", "t", "DQUOTE", "}", ",", "DQUOTE",
         "v", "a", "l", "_", "b", "y", "_", "a", "l", "i", "a", "s", "DQUOTE",
         ":", "{", "DQUOTE", "p", "r", "o", "p", "e", "r", "t", "i", "e", "s",
         "DQUOTE", ":", "{", "DQUOTE", "a", "DQUOTE", ":", "{", "DQUOTE", "t",
         "i", "t", "l", "e", "DQUOTE", ":", "DQUOTE", "A", "DQUOTE", ",",
         "DQUOTE", "t", "y", "p", "e", "DQUOTE", ":", "DQUOTE", "i", "n", "t",
         "e", "g", "e", "r", "DQUOTE", "}", ",", "DQUOTE", "b", "DQUOTE", ":",
         "{", "DQUOTE", "t", "i", "t", "l", "e", "DQUOTE", ":", "DQUOTE", "B",
         "DQUOTE", ",", "DQUOTE", "t", "y", "p", "e", "DQUOTE", ":", "DQUOTE",
         "i", "n", "t", "e", "g", "e", "r", "DQUOTE", "}", "}", ",", "DQUOTE",
         "r", "e", "q", "u", "i", "r", "e", "d", "DQUOTE", ":", "[", "DQUOTE",
         "a", "DQUOTE", ",", "DQUOTE", "b", "DQUOTE", "]", ",", "DQUOTE", "t",
         "i", "t", "l", "e", "DQUOTE", ":", "DQUOTE", "B", "a", "r", "DQUOTE",
         ",", "DQUOTE", "t", "y", "p", "e", "DQUOTE", ":", "DQUOTE", "o", "b",
         "j", "e", "c", "t", "DQUOTE", "}", "}", ",", "DQUOTE", "e", "x", "t",
         "r", "a", "_", "d", "a", "t", "a", "DQUOTE", ":", "n", "u", "l", "l",
         "}" >>,
        <<
         "e", "9", "7", "a", "e", "0", "2", "8", "a", "9", "9", "5", "a", "8",
         "0", "6", "9", "a", "0", "0", "4", "a", "b", "f", "1", "0", "1", "a",
         "6", "f", "e", "2" >> >>,
     << <<
         "{", "DQUOTE", "e", "x", "t", "r", "a", "_", "d", "a", "t", "a",
         "DQUOTE", ":", "n", "u", "l", "l", ",", "DQUOTE", "n", "a", "m", "e",
         "DQUOTE", ":", "DQUOTE", "p", "k", "g", ".", "m", "o", "d", "e", "l",
         "s", ".", "B", "a", "r", "DQUOTE", ",", "DQUOTE", "s", "c", "h", "e",
         "m", "a", "s", "DQUOTE", ":", "{", "DQUOTE", "s", "e", "r", "_", "b",
         "y", "_", "a", "l", "i", "a", "s", "DQUOTE", ":", "{", "DQUOTE", "p",
         "r", "o", "p", "e", "r", "t", "i", "e", "s", "DQUOTE", ":", "{",
         "DQUOTE", "a", "DQUOTE", ":", "{", "DQUOTE", "t", "i", "t", "l", "e",
         "DQUOTE", ":", "DQUOTE", "A", "DQUOTE", ",", "DQUOTE", "t", "y", "p",
         "e", "DQUOTE", ":", "DQUOTE", "i", "n", "t", "e", "g", "e", "r",
         "DQUOTE", "}", ",", "DQUOTE", "b", "DQUOTE", ":", "{", "DQUOTE", "t",
         "i", "t", "l", "e", "DQUOTE", ":", "DQUOTE", "B", "DQUOTE", ",",
         "DQUOTE", "t", "y", "p", "e", "DQUOTE", ":", "DQUOTE", "i", "n", "t",
         "e", "g", "e", "r", "DQUOTE", "}", "}", ",", "DQUOTE", "r", "e", "q",
         "u", "i", "r", "e", "d", "DQUOTE", ":", "[", "DQUOTE", "a", "DQUOTE",
         ",", "DQUOTE", "b", "DQUOTE", "]", ",", "DQUOTE", "t", "i", "t", "l",
         "e", "DQUOTE", ":", "DQUOTE", "B", "a", "r", "DQUOTE", ",", "DQUOTE",
         "t", "y", "p", "e", "DQUOTE", ":", "DQUOTE", "o", "b", "j", "e", "c",
         "t", "DQUOTE", "}", ",", "DQUOTE", "s", "e", "r", "_", "b", "y", "_",
         "n", "a", "m", "e", "DQUOTE", ":", "{", "DQUOTE", "p", "r", "o", "p",
         "e", "r", "t", "i", "e", "s", "DQUOTE", ":", "{", "DQUOTE", "a",
         "DQUOTE", ":", "{", "DQUOTE", "t", "i", "t", "l", "e", "DQUOTE", ":",
         "DQUOTE", "A", "DQUOTE", ",", "DQUOTE", "t", "y", "p", "e", "DQUOTE",
         ":", "DQUOTE", "i", "n", "t", "e", "g", "e", "r", "DQUOTE", "}", ",",
         "DQUOTE", "b", "DQUOTE", ":", "{", "DQUOTE", "t", "i", "t", "l", "e",
         "DQUOTE", ":", "DQUOTE", "B", "DQUOTE", ",", "DQUOTE", "t", "y", "p",
         "e", "DQUOTE", ":", "DQUOTE", "i", "n", "t", "e", "g", "e", "r",
         "DQUOTE", "}", "}", ",", "DQUOTE", "r", "e", "q", "u", "i", "r", "e",
         "d", "DQUOTE", ":", "[", "DQUOTE", "a", "DQUOTE", ",", "DQUOTE", "b",
         "DQUOTE", "]", ",", "DQUOTE", "t", "i", "t", "l", "e", "DQUOTE", ":",
         "DQUOTE", "B", "a", "r", "DQUOTE", ",", "DQUOTE", "t", "y", "p", "e",
         "DQUOTE", ":", "DQUOTE", "o", "b", "j", "e", "c", "t", "DQUOTE", "}",
         "}", "}" >>,
        <<
         "7", "1", "8", "f", "b", "9", "0", "f", "3", "d", "c", "8", "b", "3",
         "1", "5", "2", "e", "4", "1", "a", "6", "5", "8", "7", "4", "b", "b",
         "0", "5", "9", "8" >> >>,
     << <<
         "{", "DQUOTE", "e", "x", "t", "r", "a", "_", "d", "a", "t", "a",
         "DQUOTE", ":", "n", "u", "l", "l", ",", "DQUOTE", "n", "a", "m", "e",
         "DQUOTE", ":", "DQUOTE", "p", "k", "g", ".", "m", "o", "d", "e", "l",
         "s", ".", "F", "o", "o", "DQUOTE", ",", "DQUOTE", "s", "c", "h", "e",
         "m", "a", "s", "DQUOTE", ":", "{", "DQUOTE", "s", "e", "r", "_", "b",
         "y", "_", "a", "l", "i", "a", "s", "DQUOTE", ":", "{", "DQUOTE", "p",
         "r", "o", "p", "e", "r", "t", "i", "e", "s", "DQUOTE", ":", "{",
         "DQUOTE", "a", "DQUOTE", ":", "{", "DQUOTE", "t", "i", "t", "l", "e",
         "DQUOTE", ":", "DQUOTE", "A", "DQUOTE", ",", "DQUOTE", "t", "y", "p",
         "e", "DQUOTE", ":", "DQUOTE", "s", "t", "r", "i", "n", "g", "DQUOTE",
         "}", "}", ",", "DQUOTE", "r", "e", "q", "u", "i", "r", "e", "d",
         "DQUOTE", ":", "[", "DQUOTE", "a", "DQUOTE", "]", ",", "DQUOTE", "t",
         "i", "t", "l", "e", "DQUOTE", ":", "DQUOTE", "F", "o", "o", "DQUOTE",
         ",", "DQUOTE", "t", "y", "p", "e", "DQUOTE", ":", "DQUOTE", "o", "b",
         "j", "e", "c", "t", "DQUOTE", "}", ",", "DQUOTE", "s", "e", "r", "_",
         "b", "y", "_", "n", "a", "m", "e", "DQUOTE", ":", "{", "DQUOTE", "p",
         "r", "o", "p", "e", "r", "t", "i", "e", "s", "DQUOTE", ":", "{",
         "DQUOTE", "a", "DQUOTE", ":", "{", "DQUOTE", "t", "i", "t", "l", "e",
         "DQUOTE", ":", "DQUOTE", "A", "DQUOTE", ",", "DQUOTE", "t", "y", "p",
         "e", "DQUOTE", ":", "DQUOTE", "s", "t", "r", "i", "n", "g", "DQUOTE",
         "}", "}", ",", "DQUOTE", "r", "e", "q", "u", "i", "r", "e", "d",
         "DQUOTE", ":", "[", "DQUOTE", "a", "DQUOTE", "]", ",", "DQUOTE", "t",
         "i", "t", "l", "e", "DQUOTE", ":", "DQUOTE", "F", "o", "o", "DQUOTE",
         ",", "DQUOTE", "t", "y", "p", "e", "DQUOTE", ":", "DQUOTE", "o", "b",
         "j", "e", "c", "t", "DQUOTE", "}", ",", "DQUOTE", "v", "a", "l", "_",
         "b", "y", "_", "a", "l", "i", "a", "s", "DQUOTE", ":", "{", "DQUOTE",
         "p", "r", "o", "p", "e", "r", "t", "i", "e", "s", "DQUOTE", ":", "{",
         "DQUOTE", "a", "DQUOTE", ":", "{", "DQUOTE", "t", "i", "t", "l", "e",
         "DQUOTE", ":", "DQUOTE", "A", "DQUOTE", ",", "DQUOTE", "t", "y", "p",
         "e", "DQUOTE", ":", "DQUOTE", "s", "t", "r", "i", "n", "g", "DQUOTE",
         "}", "}", ",", "DQUOTE", "r", "e", "q", "u", "i", "r", "e", "d",
         "DQUOTE", ":", "[", "DQUOTE", "a", "DQUOTE", "]", ",", "DQUOTE", "t",
         "i", "t", "l", "e", "DQUOTE", ":", "DQUOTE", "F", "o", "o", "DQUOTE",
         ",", "DQUOTE", "t", "y", "p", "e", "DQUOTE", ":", "DQUOTE", "o", "b",
         "j", "e", "c", "t", "DQUOTE", "}", "}", "}" >>,
        <<
         "4", "d", "c", "6", "f", "1", "b", "0", "6", "f", "e", "3", "9", "a",
         "6", "2", "3", "8", "b", "f", "9", "2", "a", "d", "4", "0", "6", "2",
         "3", "5", "b", "1" >> >>,
     << <<
         "{", "DQUOTE", "e", "x", "t", "r", "a", "_", "d", "a", "t", "a",
         "DQUOTE", ":", "n", "u", "l", "l", ",", "DQUOTE", "n", "a", "m", "e",
         "DQUOTE", ":", "DQUOTE", "F", "o", "o", "DQUOTE", ",", "DQUOTE", "s",
         "c", "h", "e", "m", "a", "s", "DQUOTE", ":", "{", "DQUOTE", "s", "e",
         "r", "_", "b", "y", "_", "a", "l", "i", "a", "s", "DQUOTE", ":", "{",
         "DQUOTE", "p", "r", "o", "p", "e", "r", "t", "i", "e", "s", "DQUOTE",
         ":", "{", "DQUOTE", "a", "DQUOTE", ":", "{", "DQUOTE", "t", "i", "t",
         "l", "e", "DQUOTE", ":", "DQUOTE", "A", "DQUOTE", ",", "DQUOTE", "t",
         "y", "p", "e", "DQUOTE", ":", "DQUOTE", "s", "t", "r", "i", "n", "g",
         "DQUOTE", "}", "}", ",", "DQUOTE", "r", "e", "q", "u", "i", "r", "e",
         "d", "DQUOTE", ":", "[", "DQUOTE", "a", "DQUOTE", "]", ",", "DQUOTE",
         "t", "i", "t", "l", "e", "DQUOTE", ":", "DQUOTE", "F", "o", "o",
         "DQUOTE", ",", "DQUOTE", "t", "y", "p", "e", "DQUOTE", ":", "DQUOTE",
         "o", "b", "j", "e", "c", "t", "DQUOTE", "}", ",", "DQUOTE", "s", "e",
         "r", "_", "b", "y", "_", "n", "a", "m", "e", "DQUOTE", ":", "{",
         "DQUOTE", "p", "r", "o", "p", "e", "r", "t", "i", "e", "s", "DQUOTE",
         ":", "{", "DQUOTE", "a", "DQUOTE", ":", "{", "DQUOTE", "t", "i", "t",
         "l", "e", "DQUOTE", ":", "DQUOTE", "A", "DQUOTE", ",", "DQUOTE", "t",
         "y", "p", "e", "DQUOTE", ":", "DQUOTE", "s", "t", "r", "i", "n", "g",
         "DQUOTE", "}", "}", ",", "DQUOTE", "r", "e", "q", "u", "i", "r", "e",
         "d", "DQUOTE", ":", "[", "DQUOTE", "a", "DQUOTE", "]", ",", "DQUOTE",
         "t", "i", "t", "l", "e", "DQUOTE", ":", "DQUOTE", "F", "o", "o",
         "DQUOTE", ",", "DQUOTE", "t", "y", "p", "e", "DQUOTE", ":", "DQUOTE",
         "o", "b", "j", "e", "c", "t", "DQUOTE", "}", ",", "DQUOTE", "v", "a",
         "l", "_", "b", "y", "_", "a", "l", "i", "a", "s", "DQUOTE", ":", "{",
         "DQUOTE", "p", "r", "o", "p", "e", "r", "t", "i", "e", "s", "DQUOTE",
         ":", "{", "DQUOTE", "a", "DQUOTE", ":", "{", "DQUOTE", "t", "i", "t",
         "l", "e", "DQUOTE", ":", "DQUOTE", "A", "DQUOTE", ",", "DQUOTE", "t",
         "y", "p", "e", "DQUOTE", ":", "DQUOTE", "s", "t", "r", "i", "n", "g",
         "DQUOTE", "}", "}", ",", "DQUOTE", "r", "e", "q", "u", "i", "r", "e",
         "d", "DQUOTE", ":", "[", "DQUOTE", "a", "DQUOTE", "]", ",", "DQUOTE",
         "t", "i", "t", "l", "e", "DQUOTE", ":", "DQUOTE", "F", "o", "o",
         "DQUOTE", ",", "DQUOTE", "t", "y", "p", "e", "DQUOTE", ":", "DQUOTE",
         "o", "b", "j", "e", "c", "t", "DQUOTE", "}", "}", "}" >>,
        <<
         "a", "2", "7", "3", "a", "8", "4", "1", "1", "2", "0", "b", "d", "9",
         "b", "e", "2", "8", "5", "a", "3", "3", "3", "f", "d", "d", "b", "1",
         "0", "e", "a", "9" >> >>,
     << <<
         "{", "DQUOTE", "n", "a", "m", "e", "DQUOTE", ":", "DQUOTE", "p", "k",
         "g", ".", "m", "o", "d", "e", "l", "s", ".", "F", "o", "o", "DQUOTE",
         ",", "DQUOTE", "s", "c", "h", "e", "m", "a", "s", "DQUOTE", ":", "{",
         "DQUOTE", "s", "e", "r", "_", "b", "y", "_", "a", "l", "i", "a", "s",
         "DQUOTE", ":", "{", "DQUOTE", "p", "r", "o", "p", "e", "r", "t", "i",
         "e", "s", "DQUOTE", ":", "{", "DQUOTE", "a", "DQUOTE", ":", "{",
         "DQUOTE", "t", "i", "t", "l", "e", "DQUOTE", ":", "DQUOTE", "A",
         "DQUOTE", ",", "DQUOTE", "t", "y", "p", "e", "DQUOTE", ":", "DQUOTE",
         "s", "t", "r", "i", "n", "g", "DQUOTE", "}", "}", ",", "DQUOTE", "r",
         "e", "q", "u", "i", "r", "e", "d", "DQUOTE", ":", "[", "DQUOTE", "a",
         "DQUOTE", "]", ",", "DQUOTE", "t", "i", "t", "l", "e", "DQUOTE", ":",
         "DQUOTE", "F", "o", "o", "DQUOTE", ",", "DQUOTE", "t", "y", "p", "e",
         "DQUOTE", ":", "DQUOTE", "o", "b", "j", "e", "c", "t", "DQUOTE", "}",
         ",", "DQUOTE", "s", "e", "r", "_", "b", "y", "_", "n", "a", "m", "e",
         "DQUOTE", ":", "{", "DQUOTE", "p", "r", "o", "p", "e", "r", "t", "i",
         "e", "s", "DQUOTE", ":", "{", "DQUOTE", "a", "DQUOTE", ":", "{",
         "DQUOTE", "t", "i", "t", "l", "e", "DQUOTE", ":", "DQUOTE", "A",
         "DQUOTE", ",", "DQUOTE", "t", "y", "p", "e", "DQUOTE", ":", "DQUOTE",
         "s", "t", "r", "i", "n", "g", "DQUOTE", "}", "}", ",", "DQUOTE", "r",
         "e", "q", "u", "i", "r", "e", "d", "DQUOTE", ":", "[", "DQUOTE", "a",
         "DQUOTE", "]", ",", "DQUOTE", "t", "i", "t", "l", "e", "DQUOTE", ":",
         "DQUOTE", "F", "o", "o", "DQUOTE", ",", "DQUOTE", "t", "y", "p", "e",
         "DQUOTE", ":", "DQUOTE", "o", "b", "j", "e", "c", "t", "DQUOTE", "}",
         ",", "DQUOTE", "v", "a", "l", "_", "b", "y", "_", "a", "l", "i", "a",
         "s", "DQUOTE", ":", "{", "DQUOTE", "p", "r", "o", "p", "e", "r", "t",
         "i", "e", "s", "DQUOTE", ":", "{", "DQUOTE", "a", "DQUOTE", ":", "{",
         "DQUOTE", "t", "i", "t", "l", "e", "DQUOTE", ":", "DQUOTE", "A",
         "DQUOTE", ",", "DQUOTE", "t", "y", "p", "e", "DQUOTE", ":", "DQUOTE",
         "s", "t", "r", "i", "n", "g", "DQUOTE", "}", "}", ",", "DQUOTE", "r",
         "e", "q", "u", "i", "r", "e", "d", "DQUOTE", ":", "[", "DQUOTE", "a",
         "DQUOTE", "]", ",", "DQUOTE", "t", "i", "t", "l", "e", "DQUOTE", ":",
         "DQUOTE", "F", "o", "o", "DQUOTE", ",", "DQUOTE", "t", "y", "p", "e",
         "DQUOTE", ":", "DQUOTE", "o", "b", "j", "e", "c", "t", "DQUOTE", "}",
         "}", ",", "DQUOTE", "e", "x", "t", "r", "a", "_", "d", "a", "t", "a",
         "DQUOTE", ":", "n", "u", "l", "l", "}" >>,
        <<
         "f", "5", "1", "7", "e", "d", "9", "d", "9", "a", "0", "d", "e", "4",
         "3", "6", "f", "b", "5", "1", "5", "f", "2", "7", "d", "7", "1", "1",
         "9", "f", "8", "5" >> >>,
     << <<
         "{", "DQUOTE", "n", "a", "m", "e", "DQUOTE", ":", "DQUOTE", "F", "o",
         "o", "DQUOTE", ",", "DQUOTE", "s", "c", "h", "e", "m", "a", "s",
         "DQUOTE", ":", "{", "DQUOTE", "s", "e", "r", "_", "b", "y", "_", "a",
         "l", "i", "a", "s", "DQUOTE", ":", "{", "DQUOTE", "p", "r", "o", "p",
         "e", "r", "t", "i", "e", "s", "DQUOTE", ":", "{", "DQUOTE", "a",
         "DQUOTE", ":", "{", "DQUOTE", "t", "i", "t", "l", "e", "DQUOTE", ":",
         "DQUOTE", "A", "DQUOTE", ",", "DQUOTE", "t", "y", "p", "e", "DQUOTE",
         ":", "DQUOTE", "s", "t", "r", "i", "n", "g", "DQUOTE", "}", "}", ",",
         "DQUOTE", "r", "e", "q", "u", "i", "r", "e", "d", "DQUOTE", ":", "[",
         "DQUOTE", "a", "DQUOTE", "]", ",", "DQUOTE", "t", "i", "t", "l", "e",
         "DQUOTE", ":", "DQUOTE", "F", "o", "o", "DQUOTE", ",", "DQUOTE", "t",
         "y", "p", "e", "DQUOTE", ":", "DQUOTE", "o", "b", "j", "e", "c", "t",
         "DQUOTE", "}", ",", "DQUOTE", "s", "e", "r", "_", "b", "y", "_", "n",
         "a", "m", "e", "DQUOTE", ":", "{", "DQUOTE", "p", "r", "o", "p", "e",
         "r", "t", "i", "e", "s", "DQUOTE", ":", "{", "DQUOTE", "a", "DQUOTE",
         ":", "{", "DQUOTE", "t", "i", "t", "l", "e", "DQUOTE", ":", "DQUOTE",
         "A", "DQUOTE", ",", "DQUOTE", "t", "y", "p", "e", "DQUOTE", ":",
         "DQUOTE", "s", "t", "r", "i", "n", "g", "DQUOTE", "}", "}", ",",
         "DQUOTE", "r", "e", "q", "u", "i", "r", "e", "d", "DQUOTE", ":", "[",
         "DQUOTE", "a", "DQUOTE", "]", ",", "DQUOTE", "t", "i", "t", "l", "e",
         "DQUOTE", ":", "DQUOTE", "F", "o", "o", "DQUOTE", ",", "DQUOTE", "t",
         "y", "p", "e", "DQUOTE", ":", "DQUOTE", "o", "b", "j", "e", "c", "t",
         "DQUOTE", "}", ",", "DQUOTE", "v", "a", "l", "_", "b", "y", "_", "a",
         "l", "i", "a", "s", "DQUOTE", ":", "{", "DQUOTE", "p", "r", "o", "p",
         "e", "r", "t", "i", "e", "s", "DQUOTE", ":", "{", "DQUOTE", "a",
         "DQUOTE", ":", "{", "DQUOTE", "t", "i", "t", "l", "e", "DQUOTE", ":",
         "DQUOTE", "A", "DQUOTE", ",", "DQUOTE", "t", "y", "p", "e", "DQUOTE",
         ":", "DQUOTE", "s", "t", "r", "i", "n", "g", "DQUOTE", "}", "}", ",",
         "DQUOTE", "r", "e", "q", "u", "i", "r", "e", "d", "DQUOTE", ":", "[",
         "DQUOTE", "a", "DQUOTE", "]", ",", "DQUOTE", "t", "i", "t", "l", "e",
         "DQUOTE", ":", "DQUOTE", "F", "o", "o", "DQUOTE", ",", "DQUOTE", "t",
         "y", "p", "e", "DQUOTE", ":", "DQUOTE", "o", "b", "j", "e", "c", "t",
         "DQUOTE", "}", "}", ",", "DQUOTE", "e", "x", "t", "r", "a", "_", "d",
         "a", "t", "a", "DQUOTE", ":", "n", "u", "l", "l", "}" >>,
        <<
         "2", "3", "c", "0", "9", "4", "e", "4", "3", "b", "a", "3", "e", "e",
         "c", "f", "d", "6", "6", "b", "0", "6", "4", "4", "e", "4", "8", "3",
         "5", "7", "c", "5" >> >>,
     << <<
         "{", "DQUOTE", "e", "x", "t", "r", "a", "_", "d", "a", "t", "a",
         "DQUOTE", ":", "n", "u", "l", "l", ",", "DQUOTE", "n", "a", "m", "e",
         "DQUOTE", ":", "DQUOTE", "p", "k", "g", ".", "m", "o", "d", "e", "l",
         "s", ".", "F", "o", "o", "DQUOTE", ",", "DQUOTE", "s", "c", "h", "e",
         "m", "a", "s", "DQUOTE", ":", "{", "DQUOTE", "s", "e", "r", "_", "b",
         "y", "_", "a", "l", "i", "a", "s", "DQUOTE", ":", "{", "DQUOTE", "p",
         "r", "o", "p", "e", "r", "t", "i", "e", "s", "DQUOTE", ":", "{",
         "DQUOTE", "a", "DQUOTE", ":", "{", "DQUOTE", "t", "i", "t", "l", "e",
         "DQUOTE", ":", "DQUOTE", "A", "DQUOTE", ",", "DQUOTE", "t", "y", "p",
         "e", "DQUOTE", ":", "DQUOTE", "s", "t", "r", "i", "n", "g", "DQUOTE",
         "}", "}", ",", "DQUOTE", "r", "e", "q", "u", "i", "r", "e", "d",
         "DQUOTE", ":", "[", "DQUOTE", "a", "DQUOTE", "]", ",", "DQUOTE", "t",
         "i", "t", "l", "e", "DQUOTE", ":", "DQUOTE", "F", "o", "o", "DQUOTE",
         ",", "DQUOTE", "t", "y", "p", "e", "DQUOTE", ":", "DQUOTE", "o", "b",
         "j", "e", "c", "t", "DQUOTE", "}", ",", "DQUOTE", "s", "e", "r", "_",
         "b", "y", "_", "n", "a", "m", "e", "DQUOTE", ":", "{", "DQUOTE", "p",
         "r", "o", "p", "e", "r", "t", "i", "e", "s", "DQUOTE", ":", "{",
         "DQUOTE", "a", "DQUOTE", ":", "{", "DQUOTE", "t", "i", "t", "l", "e",
         "DQUOTE", ":", "DQUOTE", "A", "DQUOTE", ",", "DQUOTE", "t", "y", "p",
         "e", "DQUOTE", ":", "DQUOTE", "s", "t", "r", "i", "n", "g", "DQUOTE",
         "}", "}", ",", "DQUOTE", "r", "e", "q", "u", "i", "r", "e", "d",
         "DQUOTE", ":", "[", "DQUOTE", "a", "DQUOTE", "]", ",", "DQUOTE", "t",
         "i", "t", "l", "e", "DQUOTE", ":", "DQUOTE", "F", "o", "o", "DQUOTE",
         ",", "DQUOTE", "t", "y", "p", "e", "DQUOTE", ":", "DQUOTE", "o", "b",
         "j", "e", "c", "t", "DQUOTE", "}", "}", "}" >>,
        <<
         "3", "f", "a", "c", "b", "7", "1", "5", "6", "e", "4", "2", "6", "c",
         "7", "6", "7", "e", "8", "f", "3", "6", "6", "b", "8", "5", "2", "6",
         "f", "8", "b", "5" >> >>
  >>

\* main.hash_md5_hex: md5(value).hexdigest()
hash_md5_hex(value) ==
  IF \E i \in 1..Len(Md5Known) : Md5Known[i][1] = value
    THEN Md5Known[CHOOSE i \in 1..Len(Md5Known) : Md5Known[i][1] = value][2]
    ELSE Md5Hex(value)

----------------------------------------------------------------------------
(* Class configuration and the hash pipeline of BaseIdentityModel *)

\* The class-level defaults of BaseIdentityModel.  json_schema_mode_override
\* is the entry of the class's pydantic model_config (None when unset).
DefaultLimitLength == 12
DefaultFilepathParts == 2
DefaultConfig ==
  [ track_descriptions |-> FALSE,
    track_field_order |-> FALSE,
    track_type_order |-> FALSE,
    tracked_extra_data |-> NullV,
    limit_length |-> IntV(DefaultLimitLength),
    tracked_filepath_parts |-> DefaultFilepathParts,
    hash_function |-> "hash_md5_hex",
    track_validation_mode |-> TRUE,
    json_schema_mode_override |-> NullV ]

\* The empty str.
EmptyStr == <<>>

\* The length of the longest digest among the pluggable hash functions.
WideDigestLen == 1001

\* s repeated up to n characters
RepeatTo(s, n) == SubSeq([i \in 1..n |-> s[((i - 1) % Len(s)) + 1]], 1, n)

\* The hash functions a class can plug in: the default, one that returns the
\* empty str and one whose digest has more than a thousand characters (the
\* md5 digest repeated).
HashFunctions == {"hash_md5_hex", "hash_empty", "hash_wide"}

\* cls.model_schema_hash_function(value)
model_schema_hash_function(fn, value) ==
  CASE fn = "hash_md5_hex" -> hash_md5_hex(value)
    [] fn = "hash_empty" -> EmptyStr
    [] fn = "hash_wide" -> RepeatTo(hash_md5_hex(value), WideDigestLen)

\* bool(s) for a str returned by the pipeline
StrTruthy(h) == Len(h) > 0

\* The stop of the slice in model_schema_hash_create_new:
\* cls.model_schema_hash_limit_length or 1000
SliceFallback == 1000
LimitOrFallback(limit) == IF Truthy(limit) THEN limit.v ELSE SliceFallback

\* id_hash[: cls.model_schema_hash_limit_length or 1000]
TruncateHash(id_hash, limit) ==
  SubSeq(id_hash, 1, PySliceLen(Len(id_hash), LimitOrFallback(limit)))

\* _validate_no_json_schema_mode_override raises when the class's model_config
\* holds a truthy json_schema_mode_override.
ValidateRaises(config) == Truthy(config.json_schema_mode_override)

\* The number of Schema Provider calls (cls.model_json_schema) one
\* model_schema_hash_get_input_data makes.
ProviderCalls(locals) == IF locals.track_validation_mode THEN 3 ELSE 2

\* The dict json_schemas of model_schema_hash_get_input_data.  `schemas` holds
\* the Schema Provider's three documents for the class.
JsonSchemas(schemas, config) ==
  MapV(<< <<<<"s", "e", "r", "_", "b", "y", "_", "a", "l", "i", "a", "s">>, schemas.ser_by_alias>>,
          <<<<"s", "e", "r", "_", "b", "y", "_", "n", "a", "m", "e">>, schemas.ser_by_name>> >>
       \o (IF config.track_validation_mode
             THEN << <<<<"v", "a", "l", "_", "b", "y", "_", "a", "l", "i", "a", "s">>, schemas.val_by_alias>> >>
             ELSE <<>>))

\* The dict `data` that model_schema_hash_get_input_data serializes.
HashInputEnvelope(cls, schemas, config) ==
  MapV(<< <<<<"n", "a", "m", "e">>, StrV(get_class_fullname(cls.file_parts, cls.name,
                                              config.tracked_filepath_parts))>>,
          <<<<"s", "c", "h", "e", "m", "a", "s">>,
            _preprocess_schemas(JsonSchemas(schemas, config),
                                ~config.track_field_order,
                                ~config.track_descriptions,
                                ~config.track_type_order)>>,
          <<<<"e", "x", "t", "r", "a", "_", "d", "a", "t", "a">>, config.tracked_extra_data>> >>)

\* model_schema_hash_get_input_data after validation: the bytes, or raised.
model_schema_hash_get_input_data(cls, schemas, config) ==
  json_dumps(HashInputEnvelope(cls, schemas, config), ~config.track_field_order)

\* model_schema_hash_create_new on the bytes of the hash input
model_schema_hash_create_new(hash_input_data, config) ==
  TruncateHash(model_schema_hash_function(config.hash_function, hash_input_data),
               config.limit_length)

----------------------------------------------------------------------------
(* The classes, their schema documents and their configurations *)

\* Three model classes, named by their identity: cls_Foo, its subclass
\* cls_Bar, and cls_Twin, an unrelated class whose __name__ is also Foo.
Classes == {"cls_Foo", "cls_Bar", "cls_Twin"}

ModuleFileParts == <<<<"/">>, <<"a", "p", "p">>, <<"p", "k", "g">>, <<"m", "o", "d", "e", "l", "s", ".", "p", "y">>>>

ClassInfo ==
  [ cls_Foo |-> [name |-> <<"F", "o", "o">>, file_parts |-> ModuleFileParts, bases |-> <<>>],
    cls_Bar |-> [name |-> <<"B", "a", "r">>, file_parts |-> ModuleFileParts,
                 bases |-> <<"cls_Foo">>],
    cls_Twin |-> [name |-> <<"F", "o", "o">>, file_parts |-> ModuleFileParts, bases |-> <<>>] ]

\* The Schema Provider's entry for a field `x: int` and for a field `x: str`;
\* title is the field's name, capitalized.
IntegerField(title) ==
  MapV(<< <<<<"t", "i", "t", "l", "e">>, StrV(title)>>,
          <<<<"t", "y", "p", "e">>, StrV(<<"i", "n", "t", "e", "g", "e", "r">>)>> >>)
StringField(title) ==
  MapV(<< <<<<"t", "i", "t", "l", "e">>, StrV(title)>>,
          <<<<"t", "y", "p", "e">>, StrV(<<"s", "t", "r", "i", "n", "g">>)>> >>)

\* The Schema Provider's document for a class with the given fields.
ObjectSchema(title, fields, required) ==
  MapV(<< <<<<"p", "r", "o", "p", "e", "r", "t", "i", "e", "s">>, MapV(fields)>>,
          <<<<"r", "e", "q", "u", "i", "r", "e", "d">>, ListV([i \in 1..Len(required) |-> StrV(required[i])])>>,
          <<<<"t", "i", "t", "l", "e">>, StrV(title)>>,
          <<<<"t", "y", "p", "e">>, StrV(<<"o", "b", "j", "e", "c", "t">>)>> >>)

\* cls.model_json_schema(mode, by_alias) for the three combinations the
\* pipeline asks for.  Foo has a: int; Bar adds b: int; Twin has a: str.
ClassSchemas ==
  LET same(doc) == [ser_by_alias |-> doc, ser_by_name |-> doc, val_by_alias |-> doc]
  IN  [ cls_Foo |-> same(ObjectSchema(<<"F", "o", "o">>, << <<<<"a">>, IntegerField(<<"A">>)>> >>, <<<<"a">>>>)),
        cls_Bar |-> same(ObjectSchema(<<"B", "a", "r">>, << <<<<"a">>, IntegerField(<<"A">>)>>,
                                                 <<<<"b">>, IntegerField(<<"B">>)>> >>,
                                      <<<<"a">>, <<"b">>>>)),
        cls_Twin |-> same(ObjectSchema(<<"F", "o", "o">>, << <<<<"a">>, StringField(<<"A">>)>> >>, <<<<"a">>>>)) ]

\* The configurations a class is given in the model, besides the defaults:
\* a json_schema_mode_override with validation-mode tracking on and off, a
\* hash function that returns the empty str, extra data that is not
\* JSON-serializable, and every tracking flag set with no file path parts and
\* no limit.
ConfigOverride ==
  [DefaultConfig EXCEPT !.json_schema_mode_override = StrV(<<"v", "a", "l", "i", "d", "a", "t", "i", "o", "n">>)]
ConfigOverrideSerOnly ==
  [DefaultConfig EXCEPT !.json_schema_mode_override = StrV(<<"s", "e", "r", "i", "a", "l", "i", "z", "a", "t", "i", "o", "n">>),
                        !.track_validation_mode = FALSE]
ConfigEmptyHash == [DefaultConfig EXCEPT !.hash_function = "hash_empty"]
ConfigBadExtra == [DefaultConfig EXCEPT !.tracked_extra_data = ObjV]
ConfigTrackAll ==
  [DefaultConfig EXCEPT !.track_descriptions = TRUE,
                        !.track_field_order = TRUE,
                        !.track_type_order = TRUE,
                        !.tracked_filepath_parts = 0,
                        !.limit_length = NullV]

ConfigList ==
  << DefaultConfig, ConfigOverride, ConfigOverrideSerOnly, ConfigEmptyHash,
     ConfigBadExtra, ConfigTrackAll >>

\* The configurations assigned while two threads run.
ThreadConfigList == << ConfigOverride, ConfigTrackAll >>

----------------------------------------------------------------------------
(* The registries and the calls on them *)

\* Bounds of the model: with one thread (Spec), the calls started in one
\* behaviour and the times the settings of a class are assigned at runtime;
\* with two threads (SpecThreads), the calls and the assignments together.
MaxCalls == 3
MaxConfigChanges == 1
MaxThreadOps == 3

VARIABLES
  config,             \* class -> the settings assigned on it, by name
  assigning,          \* the configuration being assigned and what is left of it
  hash_registry,      \* BaseIdentityModel._schema_hash_registry
  report_registry,    \* BaseIdentityModel._schema_identity_report_registry
  thread,             \* thread -> the call it is in and that call's locals
  calls,              \* calls (with threads: and assignments) that may still be started
  config_changes,     \* configuration reassignments that may still be made
  canon,              \* the canonicalizer's run on a document and on an edited copy
  trunc               \* one model_schema_hash_create_new on given bytes

vars == <<config, assigning, hash_registry, report_registry, thread, calls, config_changes,
          canon, trunc>>

\* The key a class is stored under: the class object itself.
RegistryKey(cls) == cls

\* A lookup that, as attribute lookup does, falls back to the entry of a base
\* class when the class has none of its own.
RegistryGet_Mro(registry, cls) ==
  LET bases == ClassInfo[cls].bases
      stored == { i \in 1..Len(bases) : RegistryKey(bases[i]) \in DOMAIN registry }
  IN  IF RegistryKey(cls) \in DOMAIN registry
        THEN [found |-> TRUE, value |-> registry[RegistryKey(cls)]]
      ELSE IF stored # {}
        THEN [found |-> TRUE,
              value |-> registry[RegistryKey(bases[CHOOSE i \in stored :
                                                     \A j \in stored : i <= j])]]
      ELSE [found |-> FALSE, value |-> EmptyStr]

\* registry.get(cls): found tells a value from None.
RegistryGet(registry, cls) ==
  IF RegistryKey(cls) \in DOMAIN registry
    THEN [found |-> TRUE, value |-> registry[RegistryKey(cls)]]
    ELSE [found |-> FALSE, value |-> EmptyStr]

\* The registry after registry[cls] = value, which replaces a stored value.
RegistryAssign(registry, cls, value) ==
  [k \in DOMAIN registry \cup {RegistryKey(cls)} |->
     IF k = RegistryKey(cls) THEN value ELSE registry[k]]

\* The registry after registry.setdefault(cls, value)
RegistrySetDefault(registry, cls, value) ==
  IF RegistryKey(cls) \in DOMAIN registry THEN registry
  ELSE (RegistryKey(cls) :> value) @@ registry

\* An eviction that also removes the entries of the subclasses of cls.
RegistryPop_Subclasses(registry, cls) ==
  [k \in { c \in DOMAIN registry :
             c # RegistryKey(cls)
             /\ \A i \in 1..Len(ClassInfo[c].bases) : ClassInfo[c].bases[i] # cls } |->
     registry[k]]

\* The registry after registry.pop(cls, None)
RegistryPop(registry, cls) ==
  [k \in DOMAIN registry \ {RegistryKey(cls)} |-> registry[k]]

EmptyRegistry == [k \in {} |-> EmptyStr]

\* The settings model_schema_hash_get_input_data reads into locals, in the
\* order of its statements, and those model_schema_identity_report reads for
\* hash_settings, in the order of the keyword arguments.
InputSettingNames ==
  << "track_validation_mode", "track_descriptions", "tracked_extra_data",
     "track_field_order", "track_type_order" >>
ReportSettingNames ==
  << "track_descriptions", "track_field_order", "track_type_order",
     "tracked_filepath_parts", "track_validation_mode" >>

\* The locals of a call that has read no setting yet.
NoLocals ==
  [ track_validation_mode |-> DefaultConfig.track_validation_mode,
    track_descriptions |-> DefaultConfig.track_descriptions,
    tracked_extra_data |-> DefaultConfig.tracked_extra_data,
    track_field_order |-> DefaultConfig.track_field_order,
    track_type_order |-> DefaultConfig.track_type_order,
    tracked_filepath_parts |-> DefaultConfig.tracked_filepath_parts ]

\* The configuration with the five settings of InputSettingNames as the
\* locals hold them.
WithLocals(cfg, locals) ==
  [cfg EXCEPT !.track_validation_mode = locals.track_validation_mode,
              !.track_descriptions = locals.track_descriptions,
              !.tracked_extra_data = locals.tracked_extra_data,
              !.track_field_order = locals.track_field_order,
              !.track_type_order = locals.track_type_order]

\* A thread outside any call; `ret` and `err` keep the outcome of its last call.
\*   op     the public method called: "get" (model_schema_hash_get),
\*          "rebuild" (model_schema_hash_rebuild), "report"
\*          (model_schema_identity_report)
\*   pc     where the call stands; "idle", "done" and "failed" are at rest
\*   fullname, id_hash, hash_input_data   locals of the call
\*   locals the settings read so far by model_schema_hash_get_input_data or
\*          for hash_settings;  reads: how many of them have been read
\*   provider_calls, hash_calls   Schema Provider / hash function calls the
\*          call has made;  wrote: the call has changed a registry
\*   call_no   how many calls the thread has started
IdleThread ==
  [ op |-> "none", cls |-> "none", pc |-> "idle",
    fullname |-> <<>>, id_hash |-> EmptyStr,
    locals |-> NoLocals, reads |-> 0, hash_input_data |-> <<>>,
    ret |-> EmptyStr, err |-> "none",
    provider_calls |-> 0, hash_calls |-> 0, wrote |-> FALSE, call_no |-> 0 ]

AtRest(t) == thread[t].pc \in {"idle", "done", "failed"}

\* The thread whose record was `rec` enters a public method: the locals and
\* the outcome of its last call are gone.
StartedCall(rec, op, cls) ==
  [IdleThread EXCEPT !.op = op, !.cls = cls, !.call_no = rec.call_no + 1]

\* The hash SchemaIdentityInfo is built from, or the value a get / rebuild
\* returns: model_schema_hash_get has `h` in hand.
AfterHashGet(rec, h) ==
  IF rec.op = "report"
    THEN [rec EXCEPT !.pc = "r_settings", !.id_hash = h]
    ELSE [rec EXCEPT !.pc = "done", !.ret = h, !.id_hash = EmptyStr]

\* cls._schema_hash_registry.get(cls) or ...: a truthy cached hash is the
\* result, anything else (no entry, or a falsy str) leads to create_new.
HashLookup(rec, registry) ==
  LET got == RegistryGet(registry, rec.cls)
  IN  IF got.found /\ StrTruthy(got.value)
        THEN AfterHashGet(rec, got.value)
        ELSE [rec EXCEPT !.pc = "g_create"]

\* The SchemaIdentityInfo of model_schema_identity_report
SchemaIdentityInfo(fullname, hash, cfg) ==
  [ fullname |-> fullname,
    date |-> "process_start_datetime",
    hash |-> hash,
    hash_settings |->
      [ track_descriptions |-> cfg.track_descriptions,
        track_field_order |-> cfg.track_field_order,
        track_type_order |-> cfg.track_type_order,
        tracked_filepath_parts |-> cfg.tracked_filepath_parts,
        track_validation_mode |-> cfg.track_validation_mode ] ]

Threads == DOMAIN thread

\* The classes the program has defined.
Defined == DOMAIN config

\* The names of the settings: the class attributes model_schema_hash_<name>
\* and the model_config entry json_schema_mode_override.
SettingNames == DOMAIN DefaultConfig

\* A class whose body, and the program so far, assigns none of the settings:
\* config[cls] holds the settings assigned on cls itself, by name.
Unassigned == [name \in {} |-> NullV]

\* cls.__mro__ below BaseIdentityModel: the class, then its base classes.
Mro(cls) == <<cls>> \o ClassInfo[cls].bases

\* cls.model_schema_hash_<name>: the attribute of the first class of the MRO
\* that has it assigned, else BaseIdentityModel's.
ClassAttribute(cls, name) ==
  LET mro == Mro(cls)
      own == { i \in 1..Len(mro) : mro[i] \in DOMAIN config
                                     /\ name \in DOMAIN config[mro[i]] }
  IN  IF own = {} THEN DefaultConfig[name]
      ELSE config[mro[CHOOSE i \in own : \A j \in own : i <= j]][name]

\* cls.model_config.get("json_schema_mode_override"): every class has a
\* model_config dict of its own, so an assignment on a base class does not
\* show in it.
ModelConfigOverride(cls) ==
  IF "json_schema_mode_override" \in DOMAIN config[cls]
    THEN config[cls].json_schema_mode_override
    ELSE NullV

\* What a read of one setting of cls gives at this moment.
ReadSetting(cls, name) ==
  IF name = "json_schema_mode_override"
    THEN ModelConfigOverride(cls)
    ELSE ClassAttribute(cls, name)

\* Every setting of cls as a read gives it at this moment.
ClassConfig(cls) ==
  [ track_descriptions |-> ReadSetting(cls, "track_descriptions"),
    track_field_order |-> ReadSetting(cls, "track_field_order"),
    track_type_order |-> ReadSetting(cls, "track_type_order"),
    tracked_extra_data |-> ReadSetting(cls, "tracked_extra_data"),
    limit_length |-> ReadSetting(cls, "limit_length"),
    tracked_filepath_parts |-> ReadSetting(cls, "tracked_filepath_parts"),
    hash_function |-> ReadSetting(cls, "hash_function"),
    track_validation_mode |-> ReadSetting(cls, "track_validation_mode"),
    json_schema_mode_override |-> ReadSetting(cls, "json_schema_mode_override") ]

\* The settings in the order the class body declares them, model_config last.
SettingOrder ==
  << "track_descriptions", "track_field_order", "track_type_order",
     "tracked_extra_data", "limit_length", "tracked_filepath_parts",
     "hash_function", "track_validation_mode", "json_schema_mode_override" >>

\* No configuration is being assigned.
NoAssigning == [cls |-> "none", cfg |-> DefaultConfig, left |-> {}]

\* Every class of the program is defined with no setting of its own, both
\* registries are the empty dicts of the class body, no call has been made.
InitRegistries(classes, threads, max_calls, max_config_changes) ==
  /\ config = [c \in classes |-> Unassigned]
  /\ assigning = NoAssigning
  /\ hash_registry = EmptyRegistry
  /\ report_registry = EmptyRegistry
  /\ thread = [t \in threads |-> IdleThread]
  /\ calls = max_calls
  /\ config_changes = max_config_changes

\* No document is being canonicalized.
NoCanon ==
  [ phase |-> "none", doc |-> NullV, other |-> NullV, edits |-> {},
    config |-> DefaultConfig,
    canonical |-> NullV, other_canonical |-> NullV,
    bytes |-> <<>>, other_bytes |-> <<>> ]

\* No hash is being created outside a call.
NoTrunc ==
  [ phase |-> "none", cls |-> "none", config |-> DefaultConfig,
    hash_input_data |-> <<>>, id_hash |-> EmptyStr ]

Init ==
  /\ InitRegistries(Classes, {"t1"}, MaxCalls, MaxConfigChanges)
  /\ canon = NoCanon
  /\ trunc = NoTrunc

InitThreads ==
  /\ InitRegistries({"cls_Foo", "cls_Bar"}, {"t1", "t2"}, MaxThreadOps, 0)
  /\ canon = NoCanon
  /\ trunc = NoTrunc

\* The setting is assigned on cls itself, to this value.
IsAssigned(cls, name, value) ==
  name \in DOMAIN config[cls] /\ config[cls][name] = value

\* Between two calls the program assigns every setting of cls (its class
\* attributes and its model_config entry), to the values of cfg.
ChangeConfig(cls, cfg) ==
  /\ config_changes > 0
  /\ ~(\A name \in SettingNames : IsAssigned(cls, name, cfg[name]))
  /\ config' = [config EXCEPT ![cls] = cfg]
  /\ config_changes' = config_changes - 1
  /\ UNCHANGED <<trunc, canon, assigning, hash_registry, report_registry, thread, calls>>

\* The program starts to assign the settings of cfg on cls while threads are
\* calling into cls and into its subclass.  The assignments that store the
\* value a read of cls gives already change no read; they are made here, and
\* the others are left to be made one at a time.
StartAssign(cls, cfg) ==
  LET left == { name \in SettingNames : ReadSetting(cls, name) # cfg[name] }
      same == SettingNames \ left
  IN  /\ calls > 0
      /\ assigning.left = {}
      /\ left # {}
      /\ config' = [config EXCEPT ![cls] =
                      [name \in (DOMAIN @) \cup same |->
                         IF name \in same THEN cfg[name] ELSE @[name]]]
      /\ assigning' = [cls |-> cls, cfg |-> cfg, left |-> left]
      /\ calls' = calls - 1
      /\ UNCHANGED <<trunc, canon, hash_registry, report_registry, thread, config_changes>>

\* One more setting of the configuration being assigned is assigned
\* (cls.model_schema_hash_<name> = value, or cls.model_config[name] = value):
\* the first that is left, in the order of the class body.
AssignNext(name) ==
  /\ name \in assigning.left
  /\ \A i, j \in 1..Len(SettingOrder) :
       (SettingOrder[j] = name /\ i < j) => SettingOrder[i] \notin assigning.left
  /\ config' = [config EXCEPT ![assigning.cls] =
                  (name :> assigning.cfg[name]) @@ @]
  /\ assigning' = [assigning EXCEPT !.left = @ \ {name}]
  /\ UNCHANGED <<trunc, canon, hash_registry, report_registry, thread, calls, config_changes>>

\* cls.model_schema_hash_get() is called: the registry lookup.
CallGet(t, cls) ==
  /\ AtRest(t)
  /\ calls > 0
  /\ calls' = calls - 1
  /\ thread' = [thread EXCEPT ![t] = HashLookup(StartedCall(@, "get", cls), hash_registry)]
  /\ UNCHANGED <<trunc, canon, assigning, config, hash_registry, report_registry, config_changes>>

\* cls.model_schema_hash_rebuild() is called: _schema_hash_registry.pop.
CallRebuild(t, cls) ==
  /\ AtRest(t)
  /\ calls > 0
  /\ calls' = calls - 1
  /\ hash_registry' = RegistryPop(hash_registry, cls)
  /\ thread' = [thread EXCEPT ![t] =
                  [StartedCall(@, "rebuild", cls) EXCEPT
                     !.pc = "b_pop_report",
                     !.wrote = (hash_registry' # hash_registry)]]
  /\ UNCHANGED <<trunc, canon, assigning, config, report_registry, config_changes>>

\* model_schema_hash_rebuild: _schema_identity_report_registry.pop.
RebuildPopReport(t) ==
  /\ thread[t].pc = "b_pop_report"
  /\ report_registry' = RegistryPop(report_registry, thread[t].cls)
  /\ thread' = [thread EXCEPT ![t].pc = "g_lookup",
                              ![t].wrote = @ \/ (report_registry' # report_registry)]
  /\ UNCHANGED <<trunc, canon, assigning, config, hash_registry, calls, config_changes>>

\* cls.model_schema_identity_report() is called: the report registry lookup
\* (a SchemaIdentityInfo is always truthy).
CallReport(t, cls) ==
  /\ AtRest(t)
  /\ calls > 0
  /\ calls' = calls - 1
  /\ LET got == RegistryGet(report_registry, cls)
         rec == StartedCall(thread[t], "report", cls)
     IN  thread' = [thread EXCEPT ![t] =
           IF got.found
             THEN [rec EXCEPT !.pc = "done", !.ret = got.value]
             ELSE [rec EXCEPT !.pc = "r_name"]]
  /\ UNCHANGED <<trunc, canon, assigning, config, hash_registry, report_registry, config_changes>>

\* model_schema_identity_report after a miss: the first argument of
\* SchemaIdentityInfo(...), cls.model_schema_get_fullname(), which reads
\* tracked_filepath_parts.
ReportFullname(t) ==
  /\ thread[t].pc = "r_name"
  /\ LET cls == thread[t].cls
     IN  thread' = [thread EXCEPT ![t] =
           [@ EXCEPT !.pc = "g_lookup",
                     !.fullname =
                        get_class_fullname(ClassInfo[cls].file_parts,
                                           ClassInfo[cls].name,
                                           ReadSetting(cls, "tracked_filepath_parts"))]]
  /\ UNCHANGED <<trunc, canon, assigning, config, hash_registry, report_registry, calls, config_changes>>

\* model_schema_hash_get inside a rebuild or a report: the registry lookup.
GetLookup(t) ==
  /\ thread[t].pc = "g_lookup"
  /\ thread' = [thread EXCEPT ![t] = HashLookup(thread[t], hash_registry)]
  /\ UNCHANGED <<trunc, canon, assigning, config, hash_registry, report_registry, calls, config_changes>>

\* The call ends with an exception.
Raised(rec, err) ==
  [rec EXCEPT !.pc = "failed", !.err = err, !.locals = NoLocals, !.reads = 0,
              !.hash_input_data = <<>>, !.id_hash = EmptyStr]

\* A validation that is never made.
Validate_Skipped(rec, override) == [rec EXCEPT !.pc = "d_read"]

\* model_schema_hash_create_new starts model_schema_hash_get_input_data:
\* _validate_no_json_schema_mode_override has read the entry of model_config
\* and raises, or the call goes on.
Validate(rec, override) ==
  IF Truthy(override)
    THEN Raised(rec, "ValueError: override")
    ELSE [rec EXCEPT !.pc = "d_read"]

\* One more of the settings `names` is read into the locals; after the last
\* the call goes on at next_pc.
ReadNext(rec, names, value, next_pc) ==
  [rec EXCEPT !.locals = [@ EXCEPT ![names[rec.reads + 1]] = value],
              !.reads = IF rec.reads + 1 = Len(names) THEN 0 ELSE rec.reads + 1,
              !.pc = IF rec.reads + 1 = Len(names) THEN next_pc ELSE rec.pc]

\* model_schema_hash_get_input_data calls the Schema Provider, two or three
\* times as the local track_validation_mode says.
CallProvider(rec) ==
  [rec EXCEPT !.pc = "d_name",
              !.provider_calls = @ + ProviderCalls(rec.locals)]

\* model_schema_hash_get_input_data: _preprocess_schemas, then
\* model_schema_get_fullname, which has read tracked_filepath_parts, then
\* utils.json_dumps, which raises or gives the bytes.
DumpInput(rec, path_parts) ==
  LET cfg == [WithLocals(DefaultConfig, rec.locals) EXCEPT
                !.tracked_filepath_parts = path_parts]
      out == model_schema_hash_get_input_data(ClassInfo[rec.cls],
                                               ClassSchemas[rec.cls], cfg)
  IN  IF out.raised
        THEN Raised(rec, "ValueError: serialization")
        ELSE [rec EXCEPT !.pc = "c_hash",
                         !.locals = NoLocals,
                         !.hash_input_data = out.bytes]

\* model_schema_hash_create_new has read model_schema_hash_function and calls
\* it on the bytes.
ApplyHashFunction(rec, fn) ==
  [rec EXCEPT !.pc = "c_slice",
              !.hash_calls = @ + 1,
              !.id_hash = model_schema_hash_function(fn, rec.hash_input_data),
              !.hash_input_data = <<>>]

\* model_schema_hash_create_new has read model_schema_hash_limit_length and
\* slices the digest.
ApplyLimit(rec, limit) ==
  [rec EXCEPT !.pc = "g_store",
              !.id_hash = TruncateHash(rec.id_hash, limit)]

\* The steps of model_schema_hash_create_new between the two registry
\* accesses of model_schema_hash_get.  Each reads one setting of the class, as
\* it is when the step runs.
GetCreateNew(t) ==
  /\ thread[t].pc = "g_create"
  /\ thread' = [thread EXCEPT ![t] =
                  Validate(@, ReadSetting(@.cls, "json_schema_mode_override"))]
  /\ UNCHANGED <<trunc, canon, assigning, config, hash_registry, report_registry, calls, config_changes>>

GetInputRead(t) ==
  /\ thread[t].pc = "d_read"
  /\ thread' = [thread EXCEPT ![t] =
                  ReadNext(@, InputSettingNames,
                           ReadSetting(@.cls, InputSettingNames[@.reads + 1]),
                           "d_schemas")]
  /\ UNCHANGED <<trunc, canon, assigning, config, hash_registry, report_registry, calls, config_changes>>

GetInputSchemas(t) ==
  /\ thread[t].pc = "d_schemas"
  /\ thread' = [thread EXCEPT ![t] = CallProvider(@)]
  /\ UNCHANGED <<trunc, canon, assigning, config, hash_registry, report_registry, calls, config_changes>>

GetInputDumps(t) ==
  /\ thread[t].pc = "d_name"
  /\ thread' = [thread EXCEPT ![t] =
                  DumpInput(@, ReadSetting(@.cls, "tracked_filepath_parts"))]
  /\ UNCHANGED <<trunc, canon, assigning, config, hash_registry, report_registry, calls, config_changes>>

CallHashFunction(t) ==
  /\ thread[t].pc = "c_hash"
  /\ thread' = [thread EXCEPT ![t] =
                  ApplyHashFunction(@, ReadSetting(@.cls, "hash_function"))]
  /\ UNCHANGED <<trunc, canon, assigning, config, hash_registry, report_registry, calls, config_changes>>

SliceHash(t) ==
  /\ thread[t].pc = "c_slice"
  /\ thread' = [thread EXCEPT ![t] =
                  ApplyLimit(@, ReadSetting(@.cls, "limit_length"))]
  /\ UNCHANGED <<trunc, canon, assigning, config, hash_registry, report_registry, calls, config_changes>>

\* model_schema_hash_get: _schema_hash_registry.setdefault(cls, <new hash>).
GetStore(t) ==
  /\ thread[t].pc = "g_store"
  /\ hash_registry' = RegistrySetDefault(hash_registry, thread[t].cls, thread[t].id_hash)
  /\ thread' = [thread EXCEPT ![t] =
                  AfterHashGet([@ EXCEPT !.wrote = @ \/ (hash_registry' # hash_registry)],
                               RegistryGet(hash_registry', thread[t].cls).value)]
  /\ UNCHANGED <<trunc, canon, assigning, config, report_registry, calls, config_changes>>

\* model_schema_identity_report: one more keyword argument of
\* SchemaIdentityInfoHashSettings(...) is read from the class.
ReportReadSetting(t) ==
  /\ thread[t].pc = "r_settings"
  /\ thread' = [thread EXCEPT ![t] =
                  ReadNext(@, ReportSettingNames,
                           ReadSetting(@.cls, ReportSettingNames[@.reads + 1]),
                           "r_store")]
  /\ UNCHANGED <<trunc, canon, assigning, config, hash_registry, report_registry, calls, config_changes>>

\* model_schema_identity_report:
\* _schema_identity_report_registry.setdefault(cls, SchemaIdentityInfo(...)).
ReportStore(t) ==
  /\ thread[t].pc = "r_store"
  /\ LET cls == thread[t].cls
         info == SchemaIdentityInfo(thread[t].fullname, thread[t].id_hash,
                                    thread[t].locals)
     IN  /\ report_registry' = RegistrySetDefault(report_registry, cls, info)
         /\ thread' = [thread EXCEPT ![t] =
              [@ EXCEPT !.pc = "done",
                        !.ret = RegistryGet(report_registry', cls).value,
                        !.id_hash = EmptyStr,
                        !.fullname = <<>>,
                        !.locals = NoLocals,
                        !.wrote = @ \/ (report_registry' # report_registry)]]
  /\ UNCHANGED <<trunc, canon, assigning, config, hash_registry, calls, config_changes>>

\* With one thread the settings are assigned between calls.
Next ==
  \/ \E cls \in Defined, i \in 1..Len(ConfigList) :
       (\A t \in Threads : AtRest(t)) /\ ChangeConfig(cls, ConfigList[i])
  \/ \E t \in Threads, cls \in Defined : CallGet(t, cls)
  \/ \E t \in Threads, cls \in Defined : CallRebuild(t, cls)
  \/ \E t \in Threads, cls \in Defined : CallReport(t, cls)
  \/ \E t \in Threads : RebuildPopReport(t)
  \/ \E t \in Threads : ReportFullname(t)
  \/ \E t \in Threads : GetLookup(t)
  \/ \E t \in Threads : GetCreateNew(t)
  \/ \E t \in Threads : GetInputRead(t)
  \/ \E t \in Threads : GetInputSchemas(t)
  \/ \E t \in Threads : GetInputDumps(t)
  \/ \E t \in Threads : CallHashFunction(t)
  \/ \E t \in Threads : SliceHash(t)
  \/ \E t \in Threads : GetStore(t)
  \/ \E t \in Threads : ReportReadSetting(t)
  \/ \E t \in Threads : ReportStore(t)

\* Calls made one after the other.
Spec == Init /\ [][Next]_vars

\* The steps of a program whose threads call into a class and its subclass
\* while configurations are assigned on the base class, one setting at a
\* time, at any moment of a call.
NextThreads ==
  \/ \E i \in 1..Len(ThreadConfigList) : StartAssign("cls_Foo", ThreadConfigList[i])
  \/ \E name \in SettingNames : AssignNext(name)
  \/ \E t \in Threads, cls \in Defined : CallGet(t, cls)
  \/ \E t \in Threads, cls \in Defined : CallRebuild(t, cls)
  \/ \E t \in Threads, cls \in Defined : CallReport(t, cls)
  \/ \E t \in Threads : RebuildPopReport(t)
  \/ \E t \in Threads : ReportFullname(t)
  \/ \E t \in Threads : GetLookup(t)
  \/ \E t \in Threads : GetCreateNew(t)
  \/ \E t \in Threads : GetInputRead(t)
  \/ \E t \in Threads : GetInputSchemas(t)
  \/ \E t \in Threads : GetInputDumps(t)
  \/ \E t \in Threads : CallHashFunction(t)
  \/ \E t \in Threads : SliceHash(t)
  \/ \E t \in Threads : GetStore(t)
  \/ \E t \in Threads : ReportReadSetting(t)
  \/ \E t \in Threads : ReportStore(t)

\* Calls made from two threads, interleaved at every read of a setting and
\* every registry access.
SpecThreads == InitThreads /\ [][NextThreads]_vars

----------------------------------------------------------------------------
(* Properties of the registries *)

HasHash(registry, cls) == RegistryGet(registry, cls).found

\* The step is thread t's, and it is the registry lookup of a
\* model_schema_hash_get on cls called from outside: t was at rest, it has
\* started one more call, a get on cls, and no other thread has moved.
IsCallGet(t, cls) ==
  /\ AtRest(t)
  /\ thread'[t].call_no = thread[t].call_no + 1
  /\ thread'[t].op = "get"
  /\ thread'[t].cls = cls
  /\ \A u \in Threads \ {t} : thread'[u] = thread[u]
  /\ calls' = calls - 1

\* C1: once a hash is stored for a class, a later model_schema_hash_get on
\* that class returns the stored str and recomputes nothing: it makes no
\* Schema Provider call and no hash function call.  (A hit does not read the
\* configuration, so this is stated whether or not it was reassigned.)
C1_CachedGetDoesNotRecompute ==
  [][\A t \in Threads, cls \in Defined :
       (IsCallGet(t, cls) /\ HasHash(hash_registry, cls))
         => /\ thread'[t].pc = "done"
            /\ thread'[t].ret = hash_registry[RegistryKey(cls)]
            /\ thread'[t].provider_calls = 0
            /\ thread'[t].hash_calls = 0]_vars

\* C2: the registries are looked up by class identity only.  A
\* model_schema_hash_get on a class with no entry of its own is a miss that
\* goes on to compute, whatever its base classes or classes of the same name
\* have stored; the miss stores the hash computed from the class's own
\* envelope under the class's own key; and a call never returns the hash
\* stored for another class.
C2_LookupByIdentityOnly ==
  [][\A t \in Threads :
       /\ \A cls \in Defined :
            (IsCallGet(t, cls) /\ ~(cls \in DOMAIN hash_registry))
              => thread'[t].pc = "g_create"
       /\ (thread[t].pc = "g_store" /\ thread'[t] # thread[t]
             /\ ~(thread[t].cls \in DOMAIN hash_registry))
            => LET cls == thread[t].cls
               IN  /\ hash_registry' = (cls :> thread[t].id_hash) @@ hash_registry
                   /\ thread[t].id_hash =
                        model_schema_hash_create_new(
                          model_schema_hash_get_input_data(
                            ClassInfo[cls], ClassSchemas[cls], ClassConfig(cls)).bytes,
                          ClassConfig(cls))
       /\ (thread'[t] # thread[t] /\ thread'[t].pc = "done"
             /\ thread'[t].op # "report")
            => \A u \in Defined \ {thread'[t].cls} :
                 (u \in DOMAIN hash_registry' /\ StrTruthy(thread'[t].ret))
                   => thread'[t].ret # hash_registry'[u]]_vars

\* A subclass and a class of the same name have computed and stored their own
\* hashes after Foo's was stored.
C2_Witness ==
  /\ {"cls_Foo", "cls_Bar", "cls_Twin"} \subseteq DOMAIN hash_registry
  /\ hash_registry["cls_Bar"] # hash_registry["cls_Foo"]
  /\ hash_registry["cls_Twin"] # hash_registry["cls_Foo"]
  /\ \E t \in Threads :
       /\ thread[t].pc = "done" /\ thread[t].op = "get" /\ thread[t].hash_calls = 1
       /\ thread[t].cls \in {"cls_Bar", "cls_Twin"}
       /\ thread[t].ret = hash_registry[thread[t].cls]

\* C3: every step of a model_schema_hash_rebuild on cls leaves the entries of
\* every other class as they were in both registries; its first step removes
\* cls's hash and its second cls's report.
C3_RebuildTouchesOneClass ==
  [][\A t \in Threads :
       (thread'[t] # thread[t] /\ thread'[t].op = "rebuild")
         => LET cls == thread'[t].cls
            IN  /\ \A u \in Defined \ {cls} :
                     /\ RegistryGet(hash_registry', u) = RegistryGet(hash_registry, u)
                     /\ RegistryGet(report_registry', u) = RegistryGet(report_registry, u)
                /\ thread'[t].pc = "b_pop_report" => ~HasHash(hash_registry', cls)
                /\ thread[t].pc = "b_pop_report" => ~HasHash(report_registry', cls)]_vars

\* A rebuild of a class that had a hash and a report has evicted the hash,
\* while another class holds a hash.
C3_Witness ==
  \E t \in Threads :
    /\ thread[t].op = "rebuild" /\ thread[t].pc = "b_pop_report" /\ thread[t].wrote
    /\ HasHash(report_registry, thread[t].cls)
    /\ \E u \in Defined \ {thread[t].cls} : HasHash(hash_registry, u)

\* C4: a call that fails has changed neither registry.
C4_FailedCallLeavesRegistries ==
  \A t \in Threads : thread[t].pc = "failed" => ~thread[t].wrote

\* C5: the validation is the first thing a model_schema_hash_create_new does:
\* no Schema Provider or hash function call has been made when it runs.  On a
\* class with a schema-mode override and validation-mode tracking it raises
\* the configuration error and the call ends with no provider call, no hash
\* call and nothing stored.  On a class without an override the call goes on:
\* it calls the Schema Provider, then (with serializable extra data) the hash
\* function once, and its hash is then stored and returned.
C5_ConflictFailsBeforeAnyWork ==
  [][\A t \in Threads :
       LET cls == thread[t].cls
           cfg == ClassConfig(cls)
           step(pc) == thread[t].pc = pc /\ thread'[t] # thread[t]
       IN  /\ step("g_create")
                => /\ thread[t].provider_calls = 0
                   /\ thread[t].hash_calls = 0
                   /\ (Truthy(cfg.json_schema_mode_override) /\ cfg.track_validation_mode)
                        => /\ thread'[t].pc = "failed"
                           /\ thread'[t].err = "ValueError: override"
                           /\ thread'[t].provider_calls = 0
                           /\ thread'[t].hash_calls = 0
                           /\ hash_registry' = hash_registry
                           /\ report_registry' = report_registry
                           /\ thread[t].op # "rebuild" => ~thread'[t].wrote
                   /\ ~Truthy(cfg.json_schema_mode_override)
                        => thread'[t].pc = "d_read"
           /\ step("d_read")
                => /\ thread'[t].pc \in {"d_read", "d_schemas"}
                   /\ thread'[t].provider_calls = 0
                   /\ thread'[t].hash_calls = 0
           /\ step("d_schemas")
                => /\ thread'[t].pc = "d_name"
                   /\ thread'[t].provider_calls = ProviderCalls(thread[t].locals)
                   /\ thread'[t].hash_calls = 0
           /\ (step("d_name") /\ Serializable(thread[t].locals.tracked_extra_data))
                => thread'[t].pc = "c_hash"
           /\ step("c_hash")
                => thread'[t].pc = "c_slice" /\ thread'[t].hash_calls = 1
           /\ step("c_slice") => thread'[t].pc = "g_store"
           /\ step("g_store")
                => /\ HasHash(hash_registry', cls)
                   /\ thread[t].op = "get"
                        => /\ thread'[t].pc = "done"
                           /\ thread'[t].ret = hash_registry'[RegistryKey(cls)]]_vars

\* One thread's get on a class with an override has failed with nothing
\* stored for it, and another's get on a class without one has computed and
\* stored its hash.
C5_Witness ==
  \E t, u \in Threads :
    /\ thread[t].pc = "failed" /\ thread[t].op = "get"
    /\ thread[t].err = "ValueError: override"
    /\ Truthy(ClassConfig(thread[t].cls).json_schema_mode_override)
    /\ ClassConfig(thread[t].cls).track_validation_mode
    /\ thread[t].provider_calls = 0 /\ thread[t].hash_calls = 0
    /\ ~HasHash(hash_registry, thread[t].cls)
    /\ thread[u].pc = "done" /\ thread[u].op = "get" /\ thread[u].cls # thread[t].cls
    /\ ~Truthy(ClassConfig(thread[u].cls).json_schema_mode_override)
    /\ thread[u].provider_calls > 0 /\ thread[u].hash_calls = 1
    /\ HasHash(hash_registry, thread[u].cls)
    /\ thread[u].ret = hash_registry[thread[u].cls]

\* C6: configuration validation rejects a class only when it has a
\* schema-mode override and validation-mode tracking is enabled.
C6_RejectsOnlyWithValidationTracking ==
  [][\A t \in Threads :
       (thread[t].pc = "g_create" /\ thread'[t].pc = "failed"
          /\ thread'[t].err = "ValueError: override")
         => ClassConfig(thread[t].cls).track_validation_mode]_vars

\* C7: setdefault inserts only if absent: no step replaces a stored hash or a
\* stored report by another value, and a call that completes returns the value
\* the registry holds for its class.
C7_InsertIfAbsent ==
  [][/\ \A cls \in Defined :
          /\ (HasHash(hash_registry, cls) /\ HasHash(hash_registry', cls))
               => hash_registry'[RegistryKey(cls)] = hash_registry[RegistryKey(cls)]
          /\ (HasHash(report_registry, cls) /\ HasHash(report_registry', cls))
               => report_registry'[RegistryKey(cls)] = report_registry[RegistryKey(cls)]
     /\ \A t \in Threads :
          (thread'[t] # thread[t] /\ thread'[t].pc = "done")
            => LET cls == thread'[t].cls
               IN  IF thread'[t].op = "report"
                     THEN /\ HasHash(report_registry', cls)
                          /\ thread'[t].ret = report_registry'[RegistryKey(cls)]
                     ELSE /\ HasHash(hash_registry', cls)
                          /\ thread'[t].ret = hash_registry'[RegistryKey(cls)]]_vars

\* Two threads missed on the same class, both computed, and both returned the
\* one stored hash.
C7_Witness ==
  \E cls \in Defined :
    /\ HasHash(hash_registry, cls)
    /\ \A t \in {"t1", "t2"} :
         /\ t \in Threads
         /\ thread[t].pc = "done" /\ thread[t].op = "get" /\ thread[t].cls = cls
         /\ thread[t].hash_calls = 1
         /\ thread[t].ret = hash_registry[RegistryKey(cls)]

----------------------------------------------------------------------------
(* The canonicalizer on schema documents *)

\* The schema documents of the model, as the Schema Provider writes them.
\*  1  a field with a description, and a required list
\*  2  a description inside a member of an anyOf list
\*  3  a default that is a list
\*  4  a default that is a list of lists
\*  5  a default that is a map holding a list, a description and a required list
\*  6  a const map with a list inside a map inside a list
\*  7  an enum whose members are lists
\*  8  two fields, required in declaration order
\*  9  an object schema with two fields as a member of an anyOf list
Documents ==
  << MapV(<< <<<<"p", "r", "o", "p", "e", "r", "t", "i", "e", "s">>,
               MapV(<< <<<<"a">>, MapV(<< <<<<"d", "e", "s", "c", "r", "i", "p", "t", "i", "o", "n">>, StrV(<<"R", "E", "D">>)>>,
                                       <<<<"t", "y", "p", "e">>, StrV(<<"i", "n", "t", "e", "g", "e", "r">>)>> >>)>> >>)>>,
             <<<<"r", "e", "q", "u", "i", "r", "e", "d">>, ListV(<<StrV(<<"a">>)>>)>> >>),
     MapV(<< <<<<"p", "r", "o", "p", "e", "r", "t", "i", "e", "s">>,
               MapV(<< <<<<"a">>, MapV(<< <<<<"a", "n", "y", "O", "f">>,
                   ListV(<< MapV(<< <<<<"d", "e", "s", "c", "r", "i", "p", "t", "i", "o", "n">>, StrV(<<"R", "E", "D">>)>>,
                                    <<<<"t", "y", "p", "e">>, StrV(<<"i", "n", "t", "e", "g", "e", "r">>)>> >>),
                            MapV(<< <<<<"t", "y", "p", "e">>, StrV(<<"n", "u", "l", "l">>)>> >>) >>)>> >>)>> >>)>> >>),
     MapV(<< <<<<"p", "r", "o", "p", "e", "r", "t", "i", "e", "s">>,
               MapV(<< <<<<"a">>, MapV(<< <<<<"d", "e", "f", "a", "u", "l", "t">>,
                                         ListV(<<IntV(1), IntV(2), IntV(3)>>)>>,
                                       <<<<"t", "y", "p", "e">>, StrV(<<"a", "r", "r", "a", "y">>)>> >>)>> >>)>> >>),
     MapV(<< <<<<"p", "r", "o", "p", "e", "r", "t", "i", "e", "s">>,
               MapV(<< <<<<"a">>, MapV(<< <<<<"d", "e", "f", "a", "u", "l", "t">>,
                   ListV(<< ListV(<<IntV(2), IntV(1)>>), ListV(<<IntV(3)>>) >>)>>
                 >>)>> >>)>> >>),
     MapV(<< <<<<"p", "r", "o", "p", "e", "r", "t", "i", "e", "s">>,
               MapV(<< <<<<"a">>, MapV(<< <<<<"d", "e", "f", "a", "u", "l", "t">>,
                   MapV(<< <<<<"b">>, ListV(<<IntV(2), IntV(1)>>)>>,
                           <<<<"d", "e", "s", "c", "r", "i", "p", "t", "i", "o", "n">>, StrV(<<"R", "E", "D">>)>>,
                           <<<<"r", "e", "q", "u", "i", "r", "e", "d">>, ListV(<<StrV(<<"y">>), StrV(<<"x">>)>>)>> >>)>>
                 >>)>> >>)>> >>),
     MapV(<< <<<<"p", "r", "o", "p", "e", "r", "t", "i", "e", "s">>,
               MapV(<< <<<<"a">>, MapV(<< <<<<"c", "o", "n", "s", "t">>,
                   MapV(<< <<<<"a">>, ListV(<< MapV(<< <<<<"b">>,
                                                     ListV(<<IntV(2), IntV(1)>>)>> >>),
                                            IntV(1) >>)>> >>)>> >>)>> >>)>> >>),
     MapV(<< <<<<"p", "r", "o", "p", "e", "r", "t", "i", "e", "s">>,
               MapV(<< <<<<"a">>, MapV(<< <<<<"e", "n", "u", "m">>,
                   ListV(<< ListV(<<IntV(2), IntV(1)>>), ListV(<<IntV(3)>>) >>)>>
                 >>)>> >>)>> >>),
     MapV(<< <<<<"p", "r", "o", "p", "e", "r", "t", "i", "e", "s">>,
               MapV(<< <<<<"b">>, IntegerField(<<"B">>)>>, <<<<"a">>, IntegerField(<<"A">>)>> >>)>>,
             <<<<"r", "e", "q", "u", "i", "r", "e", "d">>, ListV(<<StrV(<<"b">>), StrV(<<"a">>)>>)>> >>),
     MapV(<< <<<<"a", "n", "y", "O", "f">>,
               ListV(<< MapV(<< <<<<"p", "r", "o", "p", "e", "r", "t", "i", "e", "s">>,
                                  MapV(<< <<<<"b">>, IntegerField(<<"B">>)>>,
                                          <<<<"a">>, IntegerField(<<"A">>)>> >>)>>,
                                <<<<"r", "e", "q", "u", "i", "r", "e", "d">>,
                                  ListV(<<StrV(<<"b">>), StrV(<<"a">>)>>)>> >>),
                        MapV(<< <<<<"t", "y", "p", "e">>, StrV(<<"n", "u", "l", "l">>)>> >>) >>)>> >>) >>

\* The description texts an edit writes.
DescriptionTexts == {<<"R", "E", "D">>, <<"Y", "E", "L", "L", "O", "W">>}

\* The class the documents are canonicalized for.
CanonClass == [name |-> <<"M">>, file_parts |-> ModuleFileParts, bases |-> <<>>]

\* The i-th child of a map (the value of its i-th pair) or of a list.
Child(node, i) == IF node.k = "map" THEN node.v[i][2] ELSE node.v[i]
Arity(node) == IF node.k \in {"map", "list"} THEN Len(node.v) ELSE 0

\* The node a path of child indexes leads to.
RECURSIVE NodeAt(_, _)
NodeAt(node, path) ==
  IF path = <<>> THEN node ELSE NodeAt(Child(node, path[1]), Tail(path))

\* The document with the node at a path replaced.
RECURSIVE ReplaceAt(_, _, _)
ReplaceAt(node, path, new) ==
  IF path = <<>> THEN new
  ELSE LET i == path[1]
           sub == ReplaceAt(Child(node, i), Tail(path), new)
       IN  IF node.k = "map"
             THEN MapV([node.v EXCEPT ![i] = <<node.v[i][1], sub>>])
             ELSE ListV([node.v EXCEPT ![i] = sub])

\* The paths of a document's nodes; with outside_default, only those that do
\* not lead into (or to) the value of a `default` key.
RECURSIVE Paths(_, _)
Paths(node, outside_default) ==
  {<<>>} \cup
  UNION { { <<i>> \o p : p \in Paths(Child(node, i), outside_default) } :
          i \in { j \in 1..Arity(node) :
                    ~(outside_default /\ node.k = "map" /\ node.v[j][1] = KeyDefault) } }

\* The position of a key among the pairs of a map, 0 when it has none.
KeyIndex(node, key) ==
  IF \E i \in 1..Len(node.v) : node.v[i][1] = key
    THEN CHOOSE i \in 1..Len(node.v) : node.v[i][1] = key
    ELSE 0

\* The sequence with its i-th and (i+1)-th members exchanged.
SwapAdjacent(seq, i) == [seq EXCEPT ![i] = seq[i + 1], ![i + 1] = seq[i]]

\* A document and the tracking flags are drawn; the copy starts equal.
InitCanon ==
  /\ InitRegistries({}, {}, 0, 0)
  /\ trunc = NoTrunc
  /\ \E i \in 1..Len(Documents), td, tfo, tto \in BOOLEAN :
       canon = [NoCanon EXCEPT
                  !.phase = "input",
                  !.doc = Documents[i],
                  !.other = Documents[i],
                  !.config = [DefaultConfig EXCEPT !.track_descriptions = td,
                                                   !.track_field_order = tfo,
                                                   !.track_type_order = tto]]

\* The copy's description string in the map at `path` is rewritten.
EditDescription(path, text) ==
  /\ canon.phase = "input"
  /\ LET node == NodeAt(canon.other, path)
         i == IF node.k = "map" THEN KeyIndex(node, KeyDescription) ELSE 0
     IN  /\ i > 0
         /\ node.v[i][2].k = "str"
         /\ node.v[i][2].v # text
         /\ canon' = [canon EXCEPT
                        !.other = ReplaceAt(canon.other, path \o <<i>>, StrV(text)),
                        !.edits = @ \cup {"description"}]
  /\ UNCHANGED <<trunc, assigning, config, hash_registry, report_registry, thread, calls, config_changes>>

\* Two neighbours of the copy's list at `path` change places; the list is not
\* (in) the value of a `default` key.
PermuteList(path, i) ==
  /\ canon.phase = "input"
  /\ LET node == NodeAt(canon.other, path)
     IN  /\ node.k = "list"
         /\ i < Len(node.v)
         /\ node.v[i] # node.v[i + 1]
         /\ canon' = [canon EXCEPT
                        !.other = ReplaceAt(canon.other, path,
                                            ListV(SwapAdjacent(node.v, i))),
                        !.edits = @ \cup {"permute"}]
  /\ UNCHANGED <<trunc, assigning, config, hash_registry, report_registry, thread, calls, config_changes>>

\* Two neighbouring keys of the copy's map at `path` change places in the
\* dict's insertion order.
ReorderKeys(path, i) ==
  /\ canon.phase = "input"
  /\ LET node == NodeAt(canon.other, path)
     IN  /\ node.k = "map"
         /\ i < Len(node.v)
         /\ canon' = [canon EXCEPT
                        !.other = ReplaceAt(canon.other, path,
                                            MapV(SwapAdjacent(node.v, i))),
                        !.edits = @ \cup {"keys"}]
  /\ UNCHANGED <<trunc, assigning, config, hash_registry, report_registry, thread, calls, config_changes>>

\* Two neighbours of the `required` list of str of the copy's map at `path`
\* change places.
ReorderRequired(path, i) ==
  /\ canon.phase = "input"
  /\ LET node == NodeAt(canon.other, path)
         k == IF node.k = "map" THEN KeyIndex(node, KeyRequired) ELSE 0
     IN  /\ k > 0
         /\ node.v[k][2].k = "list"
         /\ i < Len(node.v[k][2].v)
         /\ \A j \in 1..Len(node.v[k][2].v) : node.v[k][2].v[j].k = "str"
         /\ node.v[k][2].v[i] # node.v[k][2].v[i + 1]
         /\ canon' = [canon EXCEPT
                        !.other = ReplaceAt(canon.other, path \o <<k>>,
                                            ListV(SwapAdjacent(node.v[k][2].v, i))),
                        !.edits = @ \cup {"required"}]
  /\ UNCHANGED <<trunc, assigning, config, hash_registry, report_registry, thread, calls, config_changes>>

\* The Schema Provider returns `doc` for every mode of CanonClass.
SchemasOf(doc) == [ser_by_alias |-> doc, ser_by_name |-> doc, val_by_alias |-> doc]

\* model_schema_hash_get_input_data runs on the document and on the copy:
\* the preprocessed json_schemas and the bytes handed to the hash function.
Canonicalize ==
  /\ canon.phase = "input"
  /\ LET cfg == canon.config
         pre(doc) == _preprocess_schemas(JsonSchemas(SchemasOf(doc), cfg),
                                         ~cfg.track_field_order,
                                         ~cfg.track_descriptions,
                                         ~cfg.track_type_order)
         input(doc) == model_schema_hash_get_input_data(CanonClass, SchemasOf(doc), cfg)
     IN  canon' = [canon EXCEPT
                     !.phase = "hashed",
                     !.canonical = pre(canon.doc),
                     !.other_canonical = pre(canon.other),
                     !.bytes = input(canon.doc).bytes,
                     !.other_bytes = input(canon.other).bytes]
  /\ UNCHANGED <<trunc, assigning, config, hash_registry, report_registry, thread, calls, config_changes>>

NextCanon ==
  \/ \E path \in Paths(canon.other, FALSE), text \in DescriptionTexts :
       EditDescription(path, text)
  \/ \E path \in Paths(canon.other, TRUE), i \in 1..3 : PermuteList(path, i)
  \/ \E path \in Paths(canon.other, FALSE), i \in 1..3 : ReorderKeys(path, i)
  \/ \E path \in Paths(canon.other, FALSE), i \in 1..3 : ReorderRequired(path, i)
  \/ Canonicalize

\* The canonicalizer and the serializer on every document of the model, each
\* with an edited copy, under every setting of the three tracking flags.
SpecCanon == InitCanon /\ [][NextCanon]_vars

----------------------------------------------------------------------------
(* Properties of the canonicalizer *)

\* Some map of the value, at any depth, has a `description` key with a str.
RECURSIVE HasDescription(_)
HasDescription(node) ==
  \/ /\ node.k = "map"
     /\ \E i \in 1..Len(node.v) :
          node.v[i][1] = KeyDescription /\ node.v[i][2].k = "str"
  \/ \E i \in 1..Arity(node) : HasDescription(Child(node, i))

\* C8: with track_descriptions = false no `description` entry with a str
\* value survives canonicalization at any depth, and two documents that
\* differ only in description strings give the same bytes to the hash
\* function, whatever track_type_order and track_field_order are.
C8_DescriptionsDropped ==
  (canon.phase = "hashed" /\ ~canon.config.track_descriptions
     /\ canon.edits \subseteq {"description"})
    => /\ ~HasDescription(canon.canonical)
       /\ canon.bytes = canon.other_bytes

\* The values of the `default` keys reached through nested maps, each with
\* the keys that lead to it.
RECURSIVE DefaultValues(_, _)
DefaultValues(node, keys) ==
  IF node.k # "map" THEN {}
  ELSE UNION { (IF node.v[i][1] = KeyDefault
                  THEN {<<keys, node.v[i][2]>>} ELSE {})
               \cup DefaultValues(node.v[i][2], Append(keys, node.v[i][1])) :
               i \in 1..Len(node.v) }

\* C9: under every policy, the value under any `default` key reached through
\* nested maps is the same in the canonical document as in the input.
C9_DefaultsUntouched ==
  canon.phase = "hashed"
    => DefaultValues(canon.canonical, <<>>)
         = DefaultValues(JsonSchemas(SchemasOf(canon.doc), canon.config), <<>>)

\* C10: with track_type_order = false, two documents that differ only by
\* reordering lists that are not the value of a `default` key, at any depth,
\* give the same bytes to the hash function.
C10_ListOrderIgnored ==
  (canon.phase = "hashed" /\ ~canon.config.track_type_order
     /\ canon.edits \subseteq {"permute"})
    => canon.bytes = canon.other_bytes

\* The keys of the `properties` maps of a document, each map's keys in
\* insertion order, with the keys that lead to the map.
RECURSIVE FieldOrders(_, _)
FieldOrders(node, keys) ==
  IF node.k = "map"
    THEN UNION { (IF node.v[i][1] = <<"p", "r", "o", "p", "e", "r", "t", "i", "e", "s">> /\ node.v[i][2].k = "map"
                    THEN {<<keys, [j \in 1..Len(node.v[i][2].v) |-> node.v[i][2].v[j][1]]>>}
                    ELSE {})
                 \cup FieldOrders(node.v[i][2], Append(keys, node.v[i][1])) :
                 i \in 1..Len(node.v) }
  ELSE IF node.k = "list"
    THEN UNION { FieldOrders(node.v[i], Append(keys, IntToStr(i))) : i \in 1..Len(node.v) }
  ELSE {}

\* C11: with track_field_order = false, two documents that differ only in the
\* insertion order of map keys and in the order of `required` lists of str, at
\* any depth (maps that are members of lists included), give the same bytes
\* to the hash function, whatever track_type_order is; with track_field_order
\* = true, two documents that differ by such an edit and whose property keys
\* are in a different order give different bytes.
C11_FieldOrderIgnored ==
  (canon.phase = "hashed" /\ canon.edits \subseteq {"keys", "required"})
    => /\ ~canon.config.track_field_order => canon.bytes = canon.other_bytes
       /\ (canon.config.track_field_order
             /\ FieldOrders(canon.doc, <<>>) # FieldOrders(canon.other, <<>>))
            => canon.bytes # canon.other_bytes

----------------------------------------------------------------------------
(* model_schema_hash_create_new under every hash function and limit *)

\* The values of model_schema_hash_limit_length: None, and every int from 0
\* to past the length of the longest digest.
LimitLengths == {NullV} \cup {IntV(n) : n \in 0..(WideDigestLen + 1)}

\* A class, a hash function and a limit are drawn.
InitTruncate ==
  /\ InitRegistries({}, {}, 0, 0)
  /\ canon = NoCanon
  /\ \E cls \in {"cls_Foo", "cls_Twin"}, fn \in HashFunctions, limit \in LimitLengths :
       trunc = [NoTrunc EXCEPT
                  !.phase = "input",
                  !.cls = cls,
                  !.config = [DefaultConfig EXCEPT !.hash_function = fn,
                                                   !.limit_length = limit]]

\* cls.model_schema_hash_create_new(): the hash input, the hash function and
\* the slice.
CreateNewHash ==
  /\ trunc.phase = "input"
  /\ LET out == model_schema_hash_get_input_data(ClassInfo[trunc.cls],
                                                  ClassSchemas[trunc.cls], trunc.config)
     IN  trunc' = [trunc EXCEPT
                     !.phase = "hashed",
                     !.hash_input_data = out.bytes,
                     !.id_hash = model_schema_hash_create_new(out.bytes, trunc.config)]
  /\ UNCHANGED <<canon, assigning, config, hash_registry, report_registry, thread, calls,
                 config_changes>>

NextTruncate == CreateNewHash

\* model_schema_hash_create_new on two classes, under every hash function and
\* every limit.
SpecTruncate == InitTruncate /\ [][NextTruncate]_vars

\* The number of characters the limit keeps of a digest of n characters:
\* all of them for None, the first min(limit, n) otherwise.
KeptLength(limit, n) ==
  IF limit.k = "null" THEN n
  ELSE IF limit.v < n THEN limit.v ELSE n

\* C12: the hash model_schema_hash_create_new returns is the digest of the
\* hash input cut to the limit: its first min(n, len(digest)) characters for a
\* limit n >= 0 (the empty str for 0, the whole digest for a limit past its
\* length) and the whole digest, whatever its length, for None.
C12_ReferenceTruncation ==
  trunc.phase = "hashed"
    => LET fn == trunc.config.hash_function
       IN  trunc.id_hash =
             LET digest == model_schema_hash_function(fn, trunc.hash_input_data)
             IN  SubSeq(digest, 1,
                        KeptLength(trunc.config.limit_length, Len(digest)))

----------------------------------------------------------------------------
(* The two registries together *)

\* C13: whenever the report registry holds an entry for a class, the hash
\* registry holds one too and the report's `hash` field is that entry.  It is
\* stated for the states in which every call has returned or raised, so that
\* the window between the two pops of a rebuild is not counted.
C13_ReportAgreesWithHash ==
  (\A t \in Threads : AtRest(t))
    => \A cls \in Defined :
         HasHash(report_registry, cls)
           => /\ HasHash(hash_registry, cls)
              /\ report_registry[RegistryKey(cls)].hash = hash_registry[RegistryKey(cls)]

=============================================================================
